---- MODULE Spec2Model ----
(***************************************************************************)
(* AskMyRace backend: the retrieval core.                                  *)
(*                                                                         *)
(*   Spec        two threads running ingest_pdf against the singleton      *)
(*               registry of get_registry (main.py, document_registry.py)  *)
(*   SpecAdd     DocumentRegistry.add called directly by two threads       *)
(*   SpecSearch  DocumentEntry.similarity_search on one document           *)
(*               (services/document_registry.py)                           *)
(*   SpecChunk   load_pdf_chunks run repeatedly on one PDF                 *)
(*               (services/pdf_loader.py)                                  *)
(*   SpecQuery   two threads running the retrieval steps of ask_question   *)
(*               on one stored document (main.py)                          *)
(*   SpecSchedule  extract_schedule on one PDF                             *)
(*               (services/schedule_extractor.py)                          *)
(*   SpecNotes   _extract_transition_schedule_notes on the chunks of one   *)
(*               document (main.py)                                        *)
(*   SpecUpload  one request to upload_pdf, from the rate limit to the     *)
(*               response, ingest_pdf included (main.py)                   *)
(*   SpecAugment _augment_with_schedule_chunks on one document and one     *)
(*               retrieved list (main.py)                                  *)
(*   SpecLimiter one RateLimiter checked for two keys as time passes       *)
(*               (main.py)                                                 *)
(*                                                                         *)
(* Every specification of this module runs over the same variables; the    *)
(* variables a specification does not use keep their idle value.           *)
(***************************************************************************)
EXTENDS Integers, Sequences, FiniteSets, TLC

VARIABLES
    sChunks,    \* similarity_search: self.chunks, a list of Chunk
    sQuery,     \* similarity_search: query_embedding
    sTopK,      \* similarity_search: top_k
    sTie,       \* how this build's np.argsort orders equal similarities
    sPc,        \* "ready" before the call, "done" after it
    sResult     \* anchor_indices and the returned list, as 1-based
                \* positions in self.chunks

VARIABLES
    cPages,     \* load_pdf_chunks: the text of each page of the PDF
    cRuns,      \* what each call of load_pdf_chunks on cPages returned
    uuidDrawn   \* how many uuid4 values the process has drawn

VARIABLES
    global_registry,    \* document_registry._registry: 0 is None, else the
                        \* place of a DocumentRegistry in `registries`
    registries,         \* the DocumentRegistry objects made so far, each by
                        \* its _store: document id -> DocumentEntry object
    pc,                 \* where each thread is in ingest_pdf
    file,               \* ingest_pdf: file_bytes, as the PDF's page texts
    pdf_chunks,         \* ingest_pdf: chunks
    embeddings,         \* ingest_pdf: embeddings
    registry,           \* ingest_pdf: registry (0 before get_registry)
    entry               \* the DocumentEntry object each thread made; an
                        \* object is named by the thread that made it

VARIABLES
    question,           \* ask_question: payload.question
    required,           \* ask_question: entry, the DocumentEntry object that
                        \* registry.require returned (0 before the call and
                        \* after a KeyError)
    query_embedding,    \* ask_question: query_embedding
    top_chunks,         \* ask_question: top_chunks, a list of Chunk
    helper_notes        \* ask_question: helper_notes

VARIABLES
    eFile,      \* extract_schedule: file_bytes, as the PDF's page texts
    eChunks,    \* extract_schedule: chunks, what load_pdf_chunks made of it
    ePlumber,   \* what the environment gives for pdfplumber
    ePc,        \* "ready" before the call, "done" after it returned,
                \* "raised" after it raised
    eSchedule   \* what extract_schedule returned

VARIABLES
    nChunks,    \* _extract_transition_schedule_notes: entry.chunks
    nQuestion,  \* _extract_transition_schedule_notes: question
    nPc,        \* "ready" before the call, "done" after it returned,
                \* "raised" after it raised
    nNotes      \* what it returned

VARIABLES
    uRequest,   \* upload_pdf: the request, by what the handler reads of it
    uRecords,   \* upload_rate_limiter: the client's calls within the window
    uPc,        \* where the request is in upload_pdf
    uResponse   \* the response: status code and detail

VARIABLES
    aChunks,    \* _augment_with_schedule_chunks: entry.chunks
    aSelected,  \* the list `selected` as the caller passed it
    aQuestion,  \* _augment_with_schedule_chunks: question
    aPc,        \* "ready" before the call, "done" after it
    aResult     \* the list the call returned

VARIABLES
    lRecords,   \* RateLimiter._records: key -> deque of the accepted times
    lNow,       \* time.monotonic()
    lCalls      \* the calls of check so far: key, time and what it returned

searchVars == <<sChunks, sQuery, sTopK, sTie, sPc, sResult>>

chunkVars == <<cPages, cRuns>>

ingestVars == <<global_registry, registries, pc, file, pdf_chunks, embeddings,
                registry, entry>>

queryVars == <<question, required, query_embedding, top_chunks, helper_notes>>

scheduleVars == <<eFile, eChunks, ePlumber, ePc, eSchedule>>

notesVars == <<nChunks, nQuestion, nPc, nNotes>>

uploadVars == <<uRequest, uRecords, uPc, uResponse>>

augmentVars == <<aChunks, aSelected, aQuestion, aPc, aResult>>

limiterVars == <<lRecords, lNow, lCalls>>

\* The two components no other specification runs.
restVars == <<augmentVars, limiterVars>>

vars == <<searchVars, chunkVars, uuidDrawn, ingestVars, queryVars,
          scheduleVars, notesVars, uploadVars, restVars>>

\* What the actions of one component leave alone.
notSearch == <<chunkVars, uuidDrawn, ingestVars, queryVars, scheduleVars,
               notesVars, uploadVars, restVars>>
notChunk == <<searchVars, ingestVars, queryVars, scheduleVars, notesVars,
              uploadVars, restVars>>
notIngest == <<searchVars, chunkVars, queryVars, scheduleVars, notesVars,
               uploadVars, restVars>>
notQuery == <<searchVars, chunkVars, scheduleVars, notesVars, uploadVars,
              restVars>>
notSchedule == <<searchVars, chunkVars, uuidDrawn, ingestVars, queryVars,
                 notesVars, uploadVars, restVars>>
notNotes == <<searchVars, chunkVars, uuidDrawn, ingestVars, queryVars,
              scheduleVars, uploadVars, restVars>>
notUpload == <<searchVars, chunkVars, queryVars, scheduleVars, notesVars,
               restVars>>
notAugment == <<searchVars, chunkVars, uuidDrawn, ingestVars, queryVars,
                scheduleVars, notesVars, uploadVars, limiterVars>>
notLimiter == <<searchVars, chunkVars, uuidDrawn, ingestVars, queryVars,
                scheduleVars, notesVars, uploadVars, augmentVars>>

----------------------------------------------------------------------------
(* Bounds of the model.                                                    *)

MaxChunks == 3      \* chunks of the document handed to similarity_search
MaxPage == 2        \* page numbers of those chunks are 1..MaxPage
MaxTopK == 3        \* top_k is 0..MaxTopK

MaxPages == 3       \* pages of a PDF handed to load_pdf_chunks
MaxSchedulePages == 2   \* pages of a PDF handed to extract_schedule
MaxNoteChunks == 2  \* chunks of the document handed to the note extraction
MaxAugmentChunks == 3   \* chunks of the document handed to the augmentation
MaxChecks == 5      \* calls of RateLimiter.check
MaxRuns == 2        \* calls of load_pdf_chunks on the same PDF

\* Embedding vectors: two dimensions are enough to have equal, smaller,
\* negative and undefined (zero norm) cosines.
Vectors == {<<0, 0>>, <<1, 0>>, <<1, 1>>, <<-1, 1>>}

\* np.argsort's default kind is an unstable sort: the order of equal keys is
\* fixed by the build, not by the program.  "stable" keeps equal keys in
\* ascending position, "unstable" in descending position.
TiePolicies == {"stable", "unstable"}

----------------------------------------------------------------------------
(* Helpers.                                                                *)

Min(a, b) == IF a <= b THEN a ELSE b

Range(s) == {s[i] : i \in 1..Len(s)}

Reverse(s) == [i \in 1..Len(s) |-> s[Len(s) + 1 - i]]

IsNonDecreasing(s) == \A i \in 1..(Len(s) - 1) : s[i] <= s[i + 1]

SeqsUpTo(S, n) == UNION {[1..k -> S] : k \in 0..n}

----------------------------------------------------------------------------
(* Page text.  A text is a sequence of lines; a line is named by a short   *)
(* string, and the tables below give what the code reads off it.  The two  *)
(* "... (420 chars)" lines stand for paragraphs of that length.            *)

HeadLine == "EVENT SCHEDULE"
TimeLine == "09:00 - 17:00"
BlankLine == "   "
SwimLine == "Swim bike run course notes (420 chars)"
RackLine == "Transition 1 bike racking notes (420 chars)"
DayLine == "SATURDAY 13TH SEPTEMBER"
ItemLine == "09:00 Registration Opens"
BagLine == "Transition 2 red bag, Friday 12th September 14:00 - 18:00"
ItemUpperLine == "09:00 REGISTRATION OPENS"
SundayLine == "Sunday 14th September"
FridayRackLine ==
    "Transition 1 bike check-in, Friday 12th September 09:00 - 17:00"
SundayRackLine == "Transition 1 opens, Sunday 14th September 04:30 - 06:00"
EarlyLine == "04:30 - 06:00"
ItemClosesLine == "17:00 Registration Closes"
DawnLine == "06:00 - 07:00"
RunBagLine == "Transition 2 run bag notes (420 chars)"

Lines == {HeadLine, TimeLine, BlankLine, SwimLine, RackLine, DayLine,
          ItemLine, BagLine, ItemUpperLine, SundayLine, FridayRackLine,
          SundayRackLine, EarlyLine, ItemClosesLine, DawnLine, RunBagLine}

\* len(line)
LineLength(l) ==
    CASE l = HeadLine -> 14
      [] l = TimeLine -> 13
      [] l = BlankLine -> 3
      [] l = DayLine -> 23
      [] l = ItemLine -> 24
      [] l = BagLine -> 57
      [] l = ItemUpperLine -> 24
      [] l = SundayLine -> 21
      [] l = FridayRackLine -> 63
      [] l = SundayRackLine -> 55
      [] l = EarlyLine -> 13
      [] l = DawnLine -> 13
      [] l = ItemClosesLine -> 25
      [] OTHER -> 420

\* not line.strip()
IsBlank(l) == l = BlankLine

\* line.upper() == line
IsUpper(l) ==
    l \in {HeadLine, TimeLine, BlankLine, DayLine, ItemUpperLine, EarlyLine,
           DawnLine}

\* sum(char.isalpha() for char in line) / max(len(line), 1) > 0.5
AlphaRatioOk(l) ==
    l \in {HeadLine, SwimLine, RackLine, DayLine, ItemLine, BagLine,
           ItemUpperLine, SundayLine, FridayRackLine, SundayRackLine,
           ItemClosesLine, RunBagLine}

\* normalize_title: whitespace collapsed, then str.title()
normalize_title(l) ==
    CASE l = HeadLine -> "Event Schedule"
      [] l = TimeLine -> "09:00 - 17:00"
      [] l = SwimLine -> "Swim Bike Run Course Notes (420 Chars)"
      [] l = RackLine -> "Transition 1 Bike Racking Notes (420 Chars)"
      [] l = DayLine -> "Saturday 13Th September"
      [] l = ItemLine -> "09:00 Registration Opens"
      [] l = BagLine
           -> "Transition 2 Red Bag, Friday 12Th September 14:00 - 18:00"
      [] l = ItemUpperLine -> "09:00 Registration Opens"
      [] l = SundayLine -> "Sunday 14Th September"
      [] l = FridayRackLine
           -> "Transition 1 Bike Check-In, Friday 12Th September 09:00 - 17:00"
      [] l = SundayRackLine
           -> "Transition 1 Opens, Sunday 14Th September 04:30 - 06:00"
      [] l = EarlyLine -> "04:30 - 06:00"
      [] l = ItemClosesLine -> "17:00 Registration Closes"
      [] l = DawnLine -> "06:00 - 07:00"
      [] l = RunBagLine -> "Transition 2 Run Bag Notes (420 Chars)"
      [] OTHER -> ""

\* The page texts page.extract_text() returns in the model; <<>> is "" or
\* None.
PageTexts ==
    { <<>>,
      <<BlankLine>>,
      <<HeadLine, DayLine, ItemLine, RackLine>>,
      <<SwimLine, HeadLine, RackLine>>,
      <<BlankLine, TimeLine, SwimLine, BlankLine>> }

----------------------------------------------------------------------------
(* load_pdf_chunks                                                         *)

ChunkSize == 800
ChunkOverlap == 200
TitleScanLines == 5
TitleMaxLength == 80

\* text.strip(): the blank lines at both ends go.
RECURSIVE StripLeft(_)
StripLeft(t) ==
    IF t = <<>> THEN <<>>
    ELSE IF IsBlank(Head(t)) THEN StripLeft(Tail(t)) ELSE t

Strip(t) == Reverse(StripLeft(Reverse(StripLeft(t))))

\* The length of lines joined by "\n".
RECURSIVE JoinedLength(_)
JoinedLength(t) ==
    IF t = <<>> THEN 0
    ELSE LineLength(Head(t)) + (IF Len(t) > 1 THEN 1 ELSE 0)
             + JoinedLength(Tail(t))

\* The splitter's overlap: lines are dropped from the front of the current
\* chunk while it is longer than the overlap, or too long to take the next
\* line of length n.
RECURSIVE KeepOverlap(_, _)
KeepOverlap(current, n) ==
    LET total == JoinedLength(current)
        sep == IF current # <<>> THEN 1 ELSE 0
    IN  IF \/ total > ChunkOverlap
           \/ (total + n + sep > ChunkSize /\ total > 0)
        THEN KeepOverlap(Tail(current), n)
        ELSE current

\* A finished chunk joins its lines and strips the result; an empty one is
\* not emitted.
EmitDoc(docs, current) ==
    IF Strip(current) = <<>> THEN docs ELSE Append(docs, Strip(current))

\* RecursiveCharacterTextSplitter.split_text on the line separator: lines are
\* merged into chunks of at most ChunkSize characters that overlap by at
\* most ChunkOverlap characters.
RECURSIVE MergeSplits(_, _, _, _)
MergeSplits(t, i, current, docs) ==
    IF i > Len(t) THEN EmitDoc(docs, current)
    ELSE LET n == LineLength(t[i])
             sep == IF current # <<>> THEN 1 ELSE 0
         IN  IF JoinedLength(current) + n + sep > ChunkSize /\ current # <<>>
             THEN MergeSplits(t, i + 1, Append(KeepOverlap(current, n), t[i]),
                              EmitDoc(docs, current))
             ELSE MergeSplits(t, i + 1, Append(current, t[i]), docs)

SplitText(t) == MergeSplits(t, 1, <<>>, <<>>)

\* infer_section_title
infer_section_title(page_text) ==
    LET lines == SelectSeq(page_text, LAMBDA l : ~IsBlank(l))
        first == SubSeq(lines, 1, Min(TitleScanLines, Len(lines)))
        good == {i \in 1..Len(first) :
                    /\ LineLength(first[i]) <= TitleMaxLength
                    /\ AlphaRatioOk(first[i])
                    /\ IsUpper(first[i])}
    IN  IF lines = <<>> THEN "Unknown Section"
        ELSE IF good # {}
        THEN normalize_title(first[CHOOSE i \in good : \A j \in good : i <= j])
        ELSE normalize_title(lines[1])

\* str(uuid.uuid4()): a value no earlier call returned; `drawn` counts the
\* calls made so far.
Uuid4(drawn) == drawn + 1

\* A PageChunk whose order restarts on every page.
PageChunkOrderPerPage(chunk_list, drawn, chunk_text, page_index, section) ==
    [id |-> Uuid4(drawn), text |-> chunk_text, page |-> page_index,
     section |-> section,
     order |-> Cardinality({k \in 1..Len(chunk_list) :
                               chunk_list[k].page = page_index})]

\* A PageChunk whose order is taken from a counter that outlives the call.
PageChunkOrderFromCounter(chunk_list, drawn, chunk_text, page_index, section) ==
    [id |-> Uuid4(drawn), text |-> chunk_text, page |-> page_index,
     section |-> section, order |-> drawn]

\* PageChunk(id=str(uuid.uuid4()), text=chunk_text, page=page_index,
\*           section=section, order=len(chunk_list))
NewPageChunk(chunk_list, drawn, chunk_text, page_index, section) ==
    [id |-> Uuid4(drawn), text |-> chunk_text, page |-> page_index,
     section |-> section, order |-> Len(chunk_list)]

\* The inner loop: one PageChunk per text the splitter returned.
RECURSIVE AppendPageChunks(_, _, _, _, _, _)
AppendPageChunks(chunk_list, drawn, texts, j, page_index, section) ==
    IF j > Len(texts) THEN chunk_list
    ELSE AppendPageChunks(
             Append(chunk_list,
                    NewPageChunk(chunk_list, drawn, texts[j], page_index,
                                 section)),
             drawn + 1, texts, j + 1, page_index, section)

\* The loop over reader.pages from page_index on; drawn0 is the number of
\* uuid4 values drawn before the call.
RECURSIVE LoadPages(_, _, _, _)
LoadPages(pages, page_index, chunk_list, drawn0) ==
    IF page_index > Len(pages) THEN chunk_list
    ELSE LET stripped == Strip(pages[page_index])
         IN  IF stripped = <<>>
             THEN LoadPages(pages, page_index + 1, chunk_list, drawn0)
             ELSE LoadPages(pages, page_index + 1,
                            AppendPageChunks(chunk_list,
                                             drawn0 + Len(chunk_list),
                                             SplitText(stripped), 1,
                                             page_index,
                                             infer_section_title(stripped)),
                            drawn0)

\* A chunker that drops the pages without text before it numbers them.
load_pdf_chunks_of_text_pages(pages, drawn0) ==
    [chunks |-> LoadPages(SelectSeq(pages, LAMBDA text : Strip(text) # <<>>),
                          1, <<>>, drawn0),
     page_count |-> Len(pages)]

\* load_pdf_chunks: (chunk_list, len(reader.pages))
load_pdf_chunks(pages, drawn0) ==
    [chunks |-> LoadPages(pages, 1, <<>>, drawn0), page_count |-> Len(pages)]

ChunkIdle ==
    /\ cPages = <<>>
    /\ cRuns = <<>>

ChunkInit ==
    /\ cPages \in SeqsUpTo(PageTexts, MaxPages)
    /\ cRuns = <<>>
    /\ uuidDrawn = 0

\* One call of load_pdf_chunks on the PDF.
RunChunker ==
    /\ Len(cRuns) < MaxRuns
    /\ LET r == load_pdf_chunks(cPages, uuidDrawn)
       IN  /\ cRuns' = Append(cRuns, r)
           /\ uuidDrawn' = uuidDrawn + Len(r.chunks)
    /\ UNCHANGED <<notChunk, cPages>>

----------------------------------------------------------------------------
(* DocumentEntry.similarity_search                                         *)

Dot(a, b) == a[1] * b[1] + a[2] * b[2]

NormSq(a) == Dot(a, a)

\* A similarity that divides by the norm product as it is.
SimilarityUnguarded(e, q) ==
    LET d == Dot(e, q)
    IN  [sgn |-> IF d > 0 THEN 1 ELSE IF d < 0 THEN -1 ELSE 0,
         num |-> d * d,
         den |-> NormSq(e) * NormSq(q)]

\* One entry of `similarities`: (embedding @ query) / where(norms == 0,
\* 1e-10, norms).  The value is kept exactly, as the sign of the dot
\* product, its square and the squared norm product; a zero norm product
\* is replaced by the epsilon divisor, under which the score is 0 / 1e-10.
Similarity(e, q) ==
    LET d == Dot(e, q)
        n == NormSq(e) * NormSq(q)
    IN  [sgn |-> IF d > 0 THEN 1 ELSE IF d < 0 THEN -1 ELSE 0,
         num |-> d * d,
         den |-> IF n = 0 THEN 1 ELSE n]

\* x < y on two similarities.
SimLess(x, y) ==
    \/ x.sgn < y.sgn
    \/ x.sgn = 1 /\ y.sgn = 1 /\ x.num * y.den < y.num * x.den
    \/ x.sgn = -1 /\ y.sgn = -1 /\ x.num * y.den > y.num * x.den

SimEq(x, y) == ~SimLess(x, y) /\ ~SimLess(y, x)

Similarities(chunks, q) ==
    [i \in 1..Len(chunks) |-> Similarity(chunks[i].embedding, q)]

\* Whether position i comes before position j in np.argsort(similarities).
ArgBefore(sims, tie, i, j) ==
    \/ SimLess(sims[i], sims[j])
    \/ /\ SimEq(sims[i], sims[j])
       /\ IF tie = "stable" THEN i < j ELSE i > j

\* np.argsort(similarities): the positions in ascending similarity.
ArgSort(sims, tie) ==
    LET n == Len(sims)
        pos(i) == 1 + Cardinality({j \in 1..n : ArgBefore(sims, tie, j, i)})
    IN  [p \in 1..n |-> CHOOSE i \in 1..n : pos(i) = p]

\* A ranking that keeps the ascending order of argsort (the [::-1] dropped).
AnchorIndicesAscending(sims, tie, k) ==
    SubSeq(ArgSort(sims, tie), 1, Min(k, Len(sims)))

\* np.argsort(similarities)[::-1][:top_k]
AnchorIndices(sims, tie, k) ==
    SubSeq(Reverse(ArgSort(sims, tie)), 1, Min(k, Len(sims)))

\* An inner loop that takes the last chunk of the page instead of the first.
LastNeighbor(chunks, seen, page) ==
    LET cands == {i \in 1..Len(chunks) :
                     chunks[i].page = page /\ chunks[i].id \notin seen}
    IN  IF cands = {} THEN 0
        ELSE CHOOSE i \in cands : \A j \in cands : i >= j

\* The inner loop: the first chunk, in list order, on the anchor's page whose
\* id is not in seen_ids; 0 when the loop ends without a break.
FirstNeighbor(chunks, seen, page) ==
    LET cands == {i \in 1..Len(chunks) :
                     chunks[i].page = page /\ chunks[i].id \notin seen}
    IN  IF cands = {} THEN 0
        ELSE CHOOSE i \in cands : \A j \in cands : i <= j

\* An emission that puts the neighbor in front of its anchor.
EmitNeighborFirst(selected, idx, nb) ==
    IF nb = 0 THEN Append(selected, idx)
    ELSE Append(Append(selected, nb), idx)

\* selected.append(anchor), then selected.append(candidate) when the inner
\* loop found one (nb # 0).
Emit(selected, idx, nb) ==
    IF nb = 0 THEN Append(selected, idx)
    ELSE Append(Append(selected, idx), nb)

\* The outer loop over anchor_indices from position p on; `selected` holds
\* positions in chunks, seen_ids is the set of their ids.
RECURSIVE Expand(_, _, _, _)
Expand(chunks, anchors, p, selected) ==
    IF p > Len(anchors) THEN selected
    ELSE LET idx == anchors[p]
             seen == {chunks[selected[i]].id : i \in 1..Len(selected)}
         IN  IF chunks[idx].id \in seen
             THEN Expand(chunks, anchors, p + 1, selected)
             ELSE LET seen2 == seen \cup {chunks[idx].id}
                      nb == FirstNeighbor(chunks, seen2, chunks[idx].page)
                  IN  Expand(chunks, anchors, p + 1, Emit(selected, idx, nb))

\* similarity_search: anchor_indices and the returned list.
NoResult == [anchors |-> <<>>, selected |-> <<>>]

SimilaritySearch(chunks, q, k, tie) ==
    IF chunks = <<>> THEN NoResult
    ELSE LET anchors == AnchorIndices(Similarities(chunks, q), tie, k)
         IN  [anchors |-> anchors,
              selected |-> Expand(chunks, anchors, 1, <<>>)]

\* The chunk lists an entry can hold: ids are distinct (uuid4), order is the
\* position in the list, pages do not decrease along the list.
ChunkLists ==
    {[i \in 1..Len(ps) |->
         [id |-> i, page |-> ps[i], order |-> i - 1, embedding |-> es[i]]] :
       <<ps, es>> \in {pe \in SeqsUpTo(1..MaxPage, MaxChunks)
                              \X SeqsUpTo(Vectors, MaxChunks) :
                         /\ Len(pe[1]) = Len(pe[2])
                         /\ IsNonDecreasing(pe[1])}}

SearchIdle ==
    /\ sChunks = <<>>
    /\ sQuery = <<0, 0>>
    /\ sTopK = 0
    /\ sTie = "stable"
    /\ sPc = "idle"
    /\ sResult = NoResult

SearchInit ==
    /\ sChunks \in ChunkLists
    /\ sQuery \in Vectors
    /\ sTopK \in 0..MaxTopK
    /\ sTie \in TiePolicies
    /\ sPc = "ready"
    /\ sResult = NoResult

Search ==
    /\ sPc = "ready"
    /\ sResult' = SimilaritySearch(sChunks, sQuery, sTopK, sTie)
    /\ sPc' = "done"
    /\ UNCHANGED <<notSearch, sChunks, sQuery, sTopK, sTie>>

----------------------------------------------------------------------------
(* extract_schedule (services/schedule_extractor.py), text strategy        *)

None == "None"

\* _looks_like_schedule_section on the section titles of the model: the
\* title holds "schedule" and no block-listed phrase.
looks_like_schedule_section(section_title) == section_title = "Event Schedule"

\* _should_skip_line: the line is one of _HEADER_STRINGS.
should_skip_line(l) == l = HeadLine

\* _parse_day_label: a weekday followed by date tokens, title-cased.
parse_day_label(l) ==
    CASE l = DayLine -> "Saturday 13Th September"
      [] l = SundayLine -> "Sunday 14Th September"
      [] OTHER -> None

\* _parse_time_and_activity, then _clean_activity_text and
\* _split_activity_and_location_text: a leading time and a remainder that is
\* not empty.  TimeLine and EarlyLine have a leading time and no remainder.
\* An activity is the sequence of its words; no activity of the model holds
\* " at ", a dash, a colon or a location hint, so the location is None.
\* A location is a sequence of words too, and no words stand for None.
NoLocation == <<>>
NoItem == [time |-> None, activity |-> <<>>, location |-> NoLocation]

parse_time_and_activity(l) ==
    CASE l = ItemLine
           -> [time |-> "09:00", activity |-> <<"Registration", "Opens">>,
               location |-> NoLocation]
      [] l = ItemUpperLine
           -> [time |-> "09:00", activity |-> <<"REGISTRATION", "OPENS">>,
               location |-> NoLocation]
      [] l = ItemClosesLine
           -> [time |-> "17:00", activity |-> <<"Registration", "Closes">>,
               location |-> NoLocation]
      [] OTHER -> NoItem

\* str.lower() on the strings of the model.
Lower(s) ==
    CASE s \in {"Registration", "REGISTRATION"} -> "registration"
      [] s \in {"Opens", "OPENS"} -> "opens"
      [] s = "Closes" -> "closes"
      [] s \in {"Saturday", "SATURDAY"} -> "saturday"
      [] s \in {"13Th", "13TH"} -> "13th"
      [] s \in {"September", "SEPTEMBER"} -> "september"
      [] s = "Sunday" -> "sunday"
      [] s = "Saturday 13Th September" -> "saturday 13th september"
      [] s = "Sunday 14Th September" -> "sunday 14th september"
      [] s = "14Th" -> "14th"
      [] s = "EVENT" -> "event"
      [] s = "Transition" -> "transition"
      [] s = "Swim" -> "swim"
      [] s = "SCHEDULE" -> "schedule"
      [] OTHER -> s

\* " ".join(words).lower(), and (location or "").lower()
LowerWords(words) == [k \in 1..Len(words) |-> Lower(words[k])]

\* sections.setdefault(title, [])
SetDefault(sections, title) ==
    IF \E k \in 1..Len(sections) : sections[k].title = title THEN sections
    ELSE Append(sections, [title |-> title, items |-> <<>>])

\* An append that files the item under the day added last.
AppendItemToLastSection(sections, title, item) ==
    [k \in 1..Len(sections) |->
        IF k = Len(sections)
        THEN [sections[k] EXCEPT !.items = Append(@, item)]
        ELSE sections[k]]

\* sections.setdefault(title, []).append(item)
AppendItem(sections, title, item) ==
    LET secs == SetDefault(sections, title)
    IN  [k \in 1..Len(secs) |->
            IF secs[k].title = title
            THEN [secs[k] EXCEPT !.items = Append(@, item)]
            ELSE secs[k]]

\* The line loop of _extract_from_text over the lines of the schedule chunks.
RECURSIVE ScanLines(_, _, _, _, _)
ScanLines(lines, i, current_title, sections, seen) ==
    IF i > Len(lines) THEN sections
    ELSE LET l == lines[i]
             day_label == parse_day_label(l)
             parsed == parse_time_and_activity(l)
         IN  IF IsBlank(l) \/ should_skip_line(l)
             THEN ScanLines(lines, i + 1, current_title, sections, seen)
             ELSE IF day_label # None
             THEN ScanLines(lines, i + 1, day_label,
                            SetDefault(sections, day_label), seen)
             ELSE IF parsed = NoItem \/ current_title = None
             THEN ScanLines(lines, i + 1, current_title, sections, seen)
             ELSE LET key == <<Lower(current_title), parsed.time,
                               LowerWords(parsed.activity),
                               LowerWords(parsed.location)>>
                  IN  IF key \in seen
                      THEN ScanLines(lines, i + 1, current_title, sections,
                                     seen)
                      ELSE ScanLines(lines, i + 1, current_title,
                                     AppendItem(sections, current_title,
                                                parsed),
                                     seen \cup {key})

RECURSIVE ScheduleLines(_)
ScheduleLines(page_chunks) ==
    IF page_chunks = <<>> THEN <<>>
    ELSE (IF looks_like_schedule_section(Head(page_chunks).section)
          THEN Head(page_chunks).text ELSE <<>>)
             \o ScheduleLines(Tail(page_chunks))

\* _extract_from_text: the days that have an item, in first-seen order.
extract_from_text(page_chunks) ==
    SelectSeq(ScanLines(ScheduleLines(page_chunks), 1, None, <<>>, {}),
              LAMBDA day : day.items # <<>>)

----------------------------------------------------------------------------
(* extract_schedule, layout strategy.  page.extract_words() gives every    *)
(* word of the page with its position: the words of line i of the page     *)
(* text sit at top RowTops[i], at the horizontal extents the table Words   *)
(* gives them.                                                             *)

\* The tops of the lines of a page, in points: lines 3 and 4, and lines 5
\* and 6, are 10 points apart, the others 40.
RowTops == <<10, 50, 90, 100, 140, 150>>

Word(text, x0, x1) == [text |-> text, x0 |-> x0, x1 |-> x1]

\* The words of the lines that occur on the schedule pages of the model.
Words(l) ==
    CASE l = HeadLine -> <<Word("EVENT", 50, 90), Word("SCHEDULE", 95, 160)>>
      [] l = DayLine
           -> <<Word("SATURDAY", 50, 110), Word("13TH", 115, 145),
                Word("SEPTEMBER", 150, 215)>>
      [] l = SundayLine
           -> <<Word("Sunday", 50, 90), Word("14th", 95, 120),
                Word("September", 125, 185)>>
      [] l = ItemLine
           -> <<Word("09:00", 50, 75), Word("Registration", 80, 140),
                Word("Opens", 143, 170)>>
      [] l = ItemUpperLine
           -> <<Word("09:00", 50, 75), Word("REGISTRATION", 80, 150),
                Word("OPENS", 153, 190)>>
      [] l = ItemClosesLine
           -> <<Word("17:00", 50, 75), Word("Registration", 80, 140),
                Word("Closes", 143, 175)>>
      [] l = TimeLine
           -> <<Word("09:00", 50, 75), Word("-", 80, 85),
                Word("17:00", 90, 115)>>
      [] l = RackLine
           -> <<Word("Transition", 50, 110), Word("1", 115, 120),
                Word("bike", 125, 150), Word("racking", 155, 200),
                Word("notes", 205, 240)>>
      [] l = SwimLine
           -> <<Word("Swim", 50, 80), Word("bike", 85, 110),
                Word("run", 115, 135), Word("course", 140, 180),
                Word("notes", 185, 220)>>
      [] OTHER -> <<>>

\* page.extract_words(keep_blank_chars=False, use_text_flow=True)
RECURSIVE extract_words(_, _)
extract_words(text, i) ==
    IF i > Len(text) THEN <<>>
    ELSE [k \in 1..Len(Words(text[i])) |->
             [text |-> Words(text[i])[k].text, top |-> RowTops[i],
              x0 |-> Words(text[i])[k].x0, x1 |-> Words(text[i])[k].x1]]
         \o extract_words(text, i + 1)

ByTopX0(a, b) == a.top < b.top \/ (a.top = b.top /\ a.x0 < b.x0)

\* The place of s[i] in sorted(s): after the items with a smaller key and
\* after the earlier items with the same key (the sort is stable).
SortedPlace(s, i) ==
    1 + Cardinality({j \in 1..Len(s) :
                        \/ ByTopX0(s[j], s[i])
                        \/ (~ByTopX0(s[i], s[j]) /\ j < i)})

\* sorted(s, key=lambda item: (item.top, item.x0)).  Within a line of
\* _group_words_by_line the tops are equal, and the order is the one by x0.
Sorted(s) ==
    [p \in 1..Len(s) |-> s[CHOOSE i \in 1..Len(s) : SortedPlace(s, i) = p]]

\* sorted(S) of a set of numbers
RECURSIVE SortedSet(_)
SortedSet(S) ==
    IF S = {} THEN <<>>
    ELSE LET m == CHOOSE x \in S : \A y \in S : x <= y
         IN  <<m>> \o SortedSet(S \ {m})

\* _group_words_by_line: the words that share a top, by x0, the lines by top.
group_words_by_line(words) ==
    LET tops == SortedSet({words[k].top : k \in 1..Len(words)})
    IN  [n \in 1..Len(tops) |->
            [top |-> tops[n],
             words |-> Sorted(SelectSeq(words, LAMBDA w : w.top = tops[n]))]]

\* _DAY_LINE_PATTERN on the text of a line, then _normalize_title: a weekday
\* and a date give the title-cased heading.
DayRowTitle(texts) ==
    CASE texts = <<"SATURDAY", "13TH", "SEPTEMBER">> -> "Saturday 13Th September"
      [] texts = <<"Sunday", "14th", "September">> -> "Sunday 14Th September"
      [] OTHER -> None

WordTexts(words) == [k \in 1..Len(words) |-> words[k].text]

\* _detect_day_rows: the headings of a page with their tops, a title once.
RECURSIVE detect_day_rows(_, _, _)
detect_day_rows(lines, n, day_rows) ==
    IF n > Len(lines) THEN day_rows
    ELSE LET normalized == DayRowTitle(WordTexts(lines[n].words))
         IN  IF \/ normalized = None
                \/ \E k \in 1..Len(day_rows) : day_rows[k].title = normalized
             THEN detect_day_rows(lines, n + 1, day_rows)
             ELSE detect_day_rows(lines, n + 1,
                      Append(day_rows,
                             [title |-> normalized, top |-> lines[n].top]))

\* float("inf"), above every top of RowTops
Infinity == 1000

\* A segment that takes in the heading that ends it.
InSegmentOrAtEnd(top, start_top, end_top) ==
    ~(top <= start_top \/ top > end_top)

\* if top <= start_top or top >= end_top: continue
InSegment(top, start_top, end_top) ==
    ~(top <= start_top \/ top >= end_top)

\* The word loop of _build_day_entries.
RECURSIVE LineWords(_, _, _, _)
LineWords(lines, n, start_top, end_top) ==
    IF n > Len(lines) THEN <<>>
    ELSE (IF InSegment(lines[n].top, start_top, end_top)
          THEN lines[n].words ELSE <<>>)
         \o LineWords(lines, n + 1, start_top, end_top)

\* _build_day_entries: the words of the lines strictly between the two tops,
\* by (top, x0), numbered from 1 (from 0 in the code).
build_day_entries(lines, start_top, end_top) ==
    LET sorted_words == Sorted(LineWords(lines, 1, start_top, end_top))
    IN  [k \in 1..Len(sorted_words) |->
            [index |-> k, text |-> sorted_words[k].text,
             top |-> sorted_words[k].top, x0 |-> sorted_words[k].x0,
             x1 |-> sorted_words[k].x1]]

\* _looks_like_time_word and _is_time_token on the words of the model.
looks_like_time_word(text) == text \in {"09:00", "17:00"}
is_time_token(text) == text \in {"09:00", "17:00", "-"}

\* _expand_time_group: the seed and the time tokens that follow it on its
\* line (tops at most 1.2 apart).
RECURSIVE expand_time_group(_, _, _)
expand_time_group(entries, start_index, idx) ==
    IF idx > Len(entries) THEN start_index..(idx - 1)
    ELSE LET diff == entries[idx].top - entries[start_index].top
         IN  IF (diff > 1 \/ diff < -1) \/ ~is_time_token(entries[idx].text)
             THEN start_index..(idx - 1)
             ELSE expand_time_group(entries, start_index, idx + 1)

\* _normalize_time_tokens: the tokens joined, the dash spaced.
normalize_time_tokens(tokens) ==
    CASE tokens = <<"09:00">> -> "09:00"
      [] tokens = <<"17:00">> -> "17:00"
      [] tokens = <<"09:00", "-", "17:00">> -> "09:00 - 17:00"
      [] tokens = <<"09:00", "-">> -> "09:00 -"
      [] OTHER -> None

RECURSIVE SumTops(_)
SumTops(s) == IF s = <<>> THEN 0 ELSE Head(s).top + SumTops(Tail(s))

MaxOf(S) == CHOOSE x \in S : \A y \in S : y <= x
MinOf(S) == CHOOSE x \in S : \A y \in S : x <= y

\* _split_entries_by_column, from split_x on: the entries left of it are
\* the activity, the others the location, when both columns have entries
\* and lie at least 25 apart.  split_x = (left + right) / 2 is compared
\* doubled.
SplitAtX(entries, split_2x) ==
    LET activity_entries == SelectSeq(entries, LAMBDA e : 2 * e.x0 < split_2x)
        location_entries == SelectSeq(entries, LAMBDA e : 2 * e.x0 >= split_2x)
        activity_max_x ==
            MaxOf({activity_entries[k].x1 : k \in 1..Len(activity_entries)})
        location_min_x ==
            MinOf({location_entries[k].x0 : k \in 1..Len(location_entries)})
    IN  IF activity_entries = <<>> \/ location_entries = <<>>
        THEN [activity |-> entries, location |-> <<>>]
        ELSE IF location_min_x - activity_max_x < 25
        THEN [activity |-> entries, location |-> <<>>]
        ELSE [activity |-> Sorted(activity_entries),
              location |-> Sorted(location_entries)]

\* _split_entries_by_column, from the gaps on: the first widest gap is the
\* split, when it is at least 35 wide.
SplitAtWidestGap(entries, unique_positions, gaps) ==
    LET largest_gap == MaxOf({gaps[k] : k \in 1..Len(gaps)})
        at == MinOf({k \in 1..Len(gaps) : gaps[k] = largest_gap})
    IN  IF largest_gap < 35 THEN [activity |-> entries, location |-> <<>>]
        ELSE SplitAtX(entries,
                      unique_positions[at] + unique_positions[at + 1])

\* _split_entries_by_column, from unique_positions on.
SplitByPositions(entries, unique_positions) ==
    IF Len(unique_positions) <= 1
    THEN [activity |-> entries, location |-> <<>>]
    ELSE SplitAtWidestGap(entries, unique_positions,
                          [k \in 1..(Len(unique_positions) - 1) |->
                              unique_positions[k + 1] - unique_positions[k]])

\* _split_entries_by_column: the entries right of the widest gap between
\* the x0 positions are the location, when the gap is at least 35 and the
\* columns are at least 25 apart.
split_entries_by_column(entries) ==
    IF entries = <<>> THEN [activity |-> entries, location |-> <<>>]
    ELSE SplitByPositions(
             entries, SortedSet({entries[k].x0 : k \in 1..Len(entries)}))

\* _collect_description: the unused entries within 12 points above and 16
\* below the time (the mean top of its tokens) and at least 4 points right
\* of it, split by column.
collect_description(entries, time_group, used_indices) ==
    LET n == Len(time_group)
        sum_top == SumTops(time_group)
        min_x == MaxOf({time_group[k].x1 : k \in 1..n}) + 4
        collected ==
            SelectSeq(entries,
                      LAMBDA e : /\ e.index \notin used_indices
                                 /\ ~(n * e.top < sum_top - 12 * n)
                                 /\ ~(n * e.top > sum_top + 16 * n)
                                 /\ ~(e.x0 < min_x))
        split == split_entries_by_column(Sorted(collected))
    IN  [activity |-> split.activity, location |-> split.location,
         indices |-> {collected[k].index : k \in 1..Len(collected)}]

\* _clean_activity_text, _clean_location_text and
\* _split_activity_and_location_text: the words of the model carry no
\* footnote mark, trailing number, dash, colon, " at " or location hint, so
\* the words stay and no location is inferred.
clean_activity_text(words) == words
clean_location_text(words) == words

\* The loop of _collect_items_for_range from entry idx on.  Next to the
\* fields of a ScheduleItem, `tops` keeps where the words it was made of sit
\* on the page.
RECURSIVE CollectItems(_, _, _, _, _)
CollectItems(entries, idx, used_indices, seen, items) ==
    IF idx > Len(entries) THEN items
    ELSE IF idx \in used_indices \/ ~looks_like_time_word(entries[idx].text)
    THEN CollectItems(entries, idx + 1, used_indices, seen, items)
    ELSE LET group_indices == expand_time_group(entries, idx, idx + 1)
             used == used_indices \cup group_indices
             group_entries == SubSeq(entries, idx, MaxOf(group_indices))
             time_text == normalize_time_tokens(WordTexts(group_entries))
             desc == collect_description(entries, group_entries, used)
             activity == clean_activity_text(WordTexts(desc.activity))
             location_text == clean_location_text(WordTexts(desc.location))
             key == <<time_text, LowerWords(activity),
                      LowerWords(location_text)>>
         IN  IF desc.activity = <<>> \/ activity = <<>>
             THEN CollectItems(entries, idx + 1, used, seen, items)
             ELSE IF key \in seen
             THEN CollectItems(entries, idx + 1, used \cup desc.indices,
                               seen, items)
             ELSE CollectItems(entries, idx + 1, used \cup desc.indices,
                               seen \cup {key},
                               Append(items,
                                      [time |-> time_text,
                                       activity |-> activity,
                                       location |-> location_text,
                                       tops |->
                                           {entries[i].top :
                                              i \in group_indices
                                                     \cup desc.indices}]))

\* ScheduleItem(time=time_text, activity=activity, location=location_text)
ScheduleItem(item) ==
    [time |-> item.time, activity |-> item.activity,
     location |-> item.location]

ScheduleItems(items) == [k \in 1..Len(items) |-> ScheduleItem(items[k])]

\* _collect_items_for_range
collect_items_for_range(lines, start_top, end_top) ==
    ScheduleItems(CollectItems(build_day_entries(lines, start_top, end_top),
                               1, {}, {}, <<>>))

\* if items: days.append(ScheduleDay(title=row.title, items=items))
DayOf(title, items) ==
    IF items = <<>> THEN <<>> ELSE <<[title |-> title, items |-> items]>>

\* The loop of _parse_schedule_page over the day rows: a day with no item is
\* left out.
RECURSIVE ParseDayRows(_, _, _)
ParseDayRows(lines, day_rows, index) ==
    IF index > Len(day_rows) THEN <<>>
    ELSE DayOf(day_rows[index].title,
               collect_items_for_range(
                   lines, day_rows[index].top,
                   IF index + 1 <= Len(day_rows)
                   THEN day_rows[index + 1].top ELSE Infinity))
         \o ParseDayRows(lines, day_rows, index + 1)

\* _parse_schedule_page, from `lines` on.
ParseLines(lines) == ParseDayRows(lines, detect_day_rows(lines, 1, <<>>), 1)

\* _parse_schedule_page, from `words` on: if not words: return []
ParseWords(words) ==
    IF words = <<>> THEN <<>> ELSE ParseLines(group_words_by_line(words))

\* _parse_schedule_page
parse_schedule_page(text) == ParseWords(extract_words(text, 1))

\* The item loop of the merge in _extract_with_layout: an item of a later
\* page joins the day unless (time, activity, location or "") is there.
RECURSIVE MergeItems(_, _)
MergeItems(existing_items, day_items) ==
    IF day_items = <<>> THEN existing_items
    ELSE LET item == Head(day_items)
             key == <<item.time, item.activity, item.location>>
             seen == {<<existing_items[k].time, existing_items[k].activity,
                        existing_items[k].location>> :
                          k \in 1..Len(existing_items)}
         IN  MergeItems(IF key \in seen THEN existing_items
                        ELSE Append(existing_items, item),
                        Tail(day_items))

\* A merge that files every day of every page as a new day.
MergeDayAppend(collected, day) == Append(collected, day)

\* collected[day.title] = day, or the merge into the existing day
MergeDay(collected, day) ==
    IF \E k \in 1..Len(collected) : collected[k].title = day.title
    THEN [k \in 1..Len(collected) |->
             IF collected[k].title = day.title
             THEN [collected[k] EXCEPT !.items = MergeItems(@, day.items)]
             ELSE collected[k]]
    ELSE Append(collected, day)

\* for day in days
RECURSIVE MergeDays(_, _)
MergeDays(collected, days) ==
    IF days = <<>> THEN collected
    ELSE MergeDays(MergeDay(collected, Head(days)), Tail(days))

\* The page loop of _extract_with_layout.
RECURSIVE CollectPages(_, _, _, _)
CollectPages(file_pages, pages, n, collected) ==
    IF n > Len(pages) THEN collected
    ELSE IF pages[n] - 1 < 0 \/ pages[n] - 1 >= Len(file_pages)
    THEN CollectPages(file_pages, pages, n + 1, collected)
    ELSE CollectPages(file_pages, pages, n + 1,
                      MergeDays(collected,
                                parse_schedule_page(file_pages[pages[n]])))

\* What the environment gives for pdfplumber: the import failed, opening the
\* file raises, the file opens and page.extract_words raises, or the file
\* opens and its pages give their words.
PdfPlumberStates == {"missing", "open fails", "words fail", "ok"}

\* A layout strategy that takes a file that does not open as one without
\* pages to skip.
extract_with_layout_unguarded(file_pages, pages, pdfplumber) ==
    CollectPages(file_pages, pages, 1, <<>>)

\* _extract_with_layout: except Exception: return [] around the open only.
extract_with_layout(file_pages, pages, pdfplumber) ==
    IF pdfplumber = "open fails" THEN <<>>
    ELSE CollectPages(file_pages, pages, 1, <<>>)

\* sorted({chunk.page for chunk in chunks if
\* _looks_like_schedule_section(chunk.section)})
SchedulePageNumbers(page_chunks) ==
    SortedSet({page_chunks[k].page : k \in
                  {j \in 1..Len(page_chunks) :
                      looks_like_schedule_section(page_chunks[j].section)}})

\* extract_schedule, from layout_schedule on: if layout_schedule: return
\* layout_schedule; return _extract_from_text(chunks)
LayoutOrText(layout_schedule, page_chunks) ==
    IF layout_schedule # <<>> THEN layout_schedule
    ELSE extract_from_text(page_chunks)

\* extract_schedule, from `pages` on.
ScheduleOfPages(file_pages, page_chunks, pdfplumber, pages) ==
    IF pages = <<>> THEN <<>>
    ELSE LayoutOrText(IF pdfplumber = "missing" THEN <<>>
                      ELSE extract_with_layout(file_pages, pages, pdfplumber),
                      page_chunks)

\* extract_schedule: the layout result when pdfplumber is there and finds a
\* schedule, the text result otherwise.
extract_schedule(file_pages, page_chunks, pdfplumber) ==
    ScheduleOfPages(file_pages, page_chunks, pdfplumber,
                    SchedulePageNumbers(page_chunks))

\* Whether extract_schedule raises: the page loop of _extract_with_layout
\* sits in a try with a finally and no except, so an error of
\* page.extract_words on a schedule page leaves the function.
extract_schedule_raises(file_pages, page_chunks, pdfplumber) ==
    /\ pdfplumber = "words fail"
    /\ \E n \in Range(SchedulePageNumbers(page_chunks)) :
           ~(n - 1 < 0 \/ n - 1 >= Len(file_pages))

\* The pages of the PDFs handed to extract_schedule: a page without text,
\* a day with an item, the same item in capitals, a heading without items
\* before a day with one, the same item twice on a page, a heading inside
\* the reach of the item above it, a time range above an item, an item above
\* the first heading, a page that is no schedule page, a heading repeated,
\* a day with two items, a page with an item and no heading.
SchedulePages ==
    { <<>>,
      <<HeadLine, DayLine, ItemLine>>,
      <<HeadLine, DayLine, ItemUpperLine>>,
      <<HeadLine, DayLine, SundayLine, ItemLine>>,
      <<HeadLine, DayLine, ItemLine, BlankLine, ItemUpperLine>>,
      <<HeadLine, DayLine, ItemLine, SundayLine, ItemLine>>,
      <<HeadLine, DayLine, TimeLine, ItemLine>>,
      <<HeadLine, ItemLine, DayLine, ItemLine>>,
      <<SwimLine, DayLine, ItemLine>>,
      <<HeadLine, DayLine, ItemLine, DayLine, ItemUpperLine>>,
      <<HeadLine, DayLine, ItemLine, ItemClosesLine>>,
      <<HeadLine, ItemClosesLine>> }

ScheduleIdle ==
    /\ eFile = <<>>
    /\ eChunks = <<>>
    /\ ePlumber = "missing"
    /\ ePc = "idle"
    /\ eSchedule = <<>>

ScheduleInit ==
    /\ eFile \in SeqsUpTo(SchedulePages, MaxSchedulePages)
    /\ eChunks = load_pdf_chunks(eFile, 0).chunks
    /\ ePlumber \in PdfPlumberStates
    /\ ePc = "ready"
    /\ eSchedule = <<>>
    /\ uuidDrawn = 0

\* schedule = extract_schedule(file_bytes, chunks)
ExtractSchedule ==
    /\ ePc = "ready"
    /\ IF extract_schedule_raises(eFile, eChunks, ePlumber)
       THEN ePc' = "raised" /\ eSchedule' = eSchedule
       ELSE /\ ePc' = "done"
            /\ eSchedule' = extract_schedule(eFile, eChunks, ePlumber)
    /\ UNCHANGED <<notSchedule, eFile, eChunks, ePlumber>>

----------------------------------------------------------------------------
(* DocumentRegistry and get_registry (services/document_registry.py)       *)

\* DocumentRegistry.__init__: self._store = {}
EmptyStore == [id \in {} |-> 0]

\* A registry.add that keeps the entry already stored under the id.
RegistryAddKeepFirst(store, id, obj) ==
    IF id \in DOMAIN store THEN store
    ELSE [x \in DOMAIN store \cup {id} |-> IF x = id THEN obj ELSE store[x]]

\* DocumentRegistry.add: self._store[entry.id] = entry
RegistryAdd(store, id, obj) ==
    [x \in DOMAIN store \cup {id} |-> IF x = id THEN obj ELSE store[x]]

\* DocumentRegistry.get: the entry object stored under the id, 0 for None.
RegistryGet(store, id) == IF id \in DOMAIN store THEN store[id] ELSE 0

\* DocumentRegistry.list: the entry objects stored.
RegistryList(store) == {store[id] : id \in DOMAIN store}

----------------------------------------------------------------------------
(* ingest_pdf (main.py)                                                    *)

Threads == {1, 2}

MIN_KEYWORD_MATCHES == 3
GuideSampleChunks == 10

\* The TRIATHLON_KEYWORDS a line holds, in lower case.
KeywordsIn(l) ==
    CASE l = SwimLine -> {"swim", "bike", "run"}
      [] l = RackLine -> {"transition", "bike"}
      [] l = BagLine -> {"transition"}
      [] l = RunBagLine -> {"transition", "run"}
      [] OTHER -> {}

\* _looks_like_triathlon_guide
looks_like_triathlon_guide(page_chunks) ==
    LET pages == SubSeq(page_chunks, 1, Min(GuideSampleChunks, Len(page_chunks)))
        found == UNION {UNION {KeywordsIn(pages[k].text[j]) :
                                  j \in 1..Len(pages[k].text)} :
                           k \in 1..Len(pages)}
    IN  Cardinality(found) >= MIN_KEYWORD_MATCHES

\* The vector the embedding model gives a text.
Embedding(text) ==
    CASE Head(text) = SwimLine -> <<1, 1>>
      [] Head(text) = HeadLine -> <<1, 0>>
      [] Head(text) \in {TimeLine, BagLine} -> <<-1, 1>>
      [] OTHER -> <<0, 0>>

\* embed_chunks when the collaborator answers with m vectors.
embed_chunks(page_chunks, m) == [k \in 1..m |-> Embedding(page_chunks[k].text)]

\* The PDFs uploaded in the model.
PdfNoText == << <<>>, <<BlankLine>> >>
PdfOther == << <<HeadLine, DayLine, ItemLine, RackLine>> >>
PdfPlain == << <<BlankLine, TimeLine, SwimLine, BlankLine>> >>
PdfGuide == << <<SwimLine, HeadLine, RackLine>>, <<BlankLine>>,
               <<HeadLine, DayLine, ItemLine, RackLine>> >>

Pdfs == {PdfNoText, PdfOther, PdfPlain, PdfGuide}

NoEntry == [id |-> 0, page_count |-> 0, chunks |-> <<>>, schedule |-> <<>>]

\* DocumentEntry(id=document_id, filename=filename, page_count=page_count,
\* uploaded_at=...): chunks and schedule take their defaults.
DocumentEntry(document_id, page_count) ==
    [id |-> document_id, page_count |-> page_count, chunks |-> <<>>,
     schedule |-> <<>>]

\* Chunk(id=chunk.id, ..., order=chunk.order, embedding=vector)
Chunk(chunk, vector) ==
    [id |-> chunk.id, text |-> chunk.text, page |-> chunk.page,
     section |-> chunk.section, order |-> chunk.order, embedding |-> vector]

\* A loop over zip(chunks, embeddings) that is left before its first pass.
ZipLeftEarly(entry_chunks, page_chunks, vectors) == TRUE

\* zip(chunks, embeddings, strict=False) is exhausted.
ZipDone(entry_chunks, page_chunks, vectors) ==
    Len(entry_chunks) >= Min(Len(page_chunks), Len(vectors))

\* The list the loop over zip(chunks, embeddings) builds when run to its end.
Zip(page_chunks, vectors) ==
    [k \in 1..Min(Len(page_chunks), Len(vectors)) |->
        Chunk(page_chunks[k], vectors[k])]

IngestIdle ==
    /\ global_registry = 0
    /\ registries = <<>>
    /\ pc = [t \in Threads |-> "idle"]
    /\ file = [t \in Threads |-> <<>>]
    /\ pdf_chunks = [t \in Threads |-> <<>>]
    /\ embeddings = [t \in Threads |-> <<>>]
    /\ registry = [t \in Threads |-> 0]
    /\ entry = [t \in Threads |-> NoEntry]

IngestInit ==
    /\ global_registry = 0
    /\ registries = <<>>
    /\ pc = [t \in Threads |-> "start"]
    /\ file = [t \in Threads |-> <<>>]
    /\ pdf_chunks = [t \in Threads |-> <<>>]
    /\ embeddings = [t \in Threads |-> <<>>]
    /\ registry = [t \in Threads |-> 0]
    /\ entry = [t \in Threads |-> NoEntry]
    /\ uuidDrawn = 0

\* chunks, page_count = load_pdf_chunks(file_bytes); no chunk raises.
Load(t) ==
    /\ pc[t] = "start"
    /\ \E pdf \in Pdfs :
          LET r == load_pdf_chunks(pdf, uuidDrawn)
          IN  /\ file' = [file EXCEPT ![t] = pdf]
              /\ pdf_chunks' = [pdf_chunks EXCEPT ![t] = r.chunks]
              /\ uuidDrawn' = uuidDrawn + Len(r.chunks)
              /\ pc' = [pc EXCEPT ![t] =
                           IF r.chunks = <<>> THEN "failed" ELSE "check"]
    /\ UNCHANGED <<notIngest, global_registry, registries, embeddings,
                   registry, entry>>

\* if not _looks_like_triathlon_guide(chunks): raise ValueError
CheckGuide(t) ==
    /\ pc[t] = "check"
    /\ pc' = [pc EXCEPT ![t] =
                 IF looks_like_triathlon_guide(pdf_chunks[t]) THEN "embed"
                 ELSE "failed"]
    /\ UNCHANGED <<notIngest, uuidDrawn, global_registry, registries, file,
                   pdf_chunks, embeddings, registry, entry>>

\* embeddings = embed_chunks(...): the collaborator raises, or answers with
\* a vector per text, or with one vector less.
Embed(t) ==
    /\ pc[t] = "embed"
    /\ \/ /\ pc' = [pc EXCEPT ![t] = "failed"]
          /\ UNCHANGED embeddings
       \/ /\ \E m \in {Len(pdf_chunks[t]) - 1, Len(pdf_chunks[t])} :
                embeddings' = [embeddings EXCEPT ![t] =
                                  embed_chunks(pdf_chunks[t], m)]
          /\ pc' = [pc EXCEPT ![t] = "get_registry"]
    /\ UNCHANGED <<notIngest, uuidDrawn, global_registry, registries, file,
                   pdf_chunks, registry, entry>>

\* get_registry: if _registry is None
GetRegistryTest(t) ==
    /\ pc[t] = "get_registry"
    /\ pc' = [pc EXCEPT ![t] =
                 IF global_registry = 0 THEN "create_registry"
                 ELSE "return_registry"]
    /\ UNCHANGED <<notIngest, uuidDrawn, global_registry, registries, file,
                   pdf_chunks, embeddings, registry, entry>>

\* get_registry: _registry = DocumentRegistry()
GetRegistryCreate(t) ==
    /\ pc[t] = "create_registry"
    /\ registries' = Append(registries, EmptyStore)
    /\ global_registry' = Len(registries) + 1
    /\ pc' = [pc EXCEPT ![t] = "return_registry"]
    /\ UNCHANGED <<notIngest, uuidDrawn, file, pdf_chunks, embeddings,
                   registry, entry>>

\* get_registry: return _registry
GetRegistryReturn(t) ==
    /\ pc[t] = "return_registry"
    /\ registry' = [registry EXCEPT ![t] = global_registry]
    /\ pc' = [pc EXCEPT ![t] = "new_entry"]
    /\ UNCHANGED <<notIngest, uuidDrawn, global_registry, registries, file,
                   pdf_chunks, embeddings, entry>>

\* document_id = str(uuid.uuid4()); entry = DocumentEntry(...)
NewEntry(t) ==
    /\ pc[t] = "new_entry"
    /\ entry' = [entry EXCEPT ![t] =
                    DocumentEntry(Uuid4(uuidDrawn), Len(file[t]))]
    /\ uuidDrawn' = uuidDrawn + 1
    /\ pc' = [pc EXCEPT ![t] = "zip"]
    /\ UNCHANGED <<notIngest, global_registry, registries, file, pdf_chunks,
                   embeddings, registry>>

\* One pass of the loop: entry.chunks.append(Chunk(...))
AppendChunk(t) ==
    /\ pc[t] = "zip"
    /\ ~ZipDone(entry[t].chunks, pdf_chunks[t], embeddings[t])
    /\ LET k == Len(entry[t].chunks) + 1
       IN  entry' = [entry EXCEPT ![t].chunks =
                        Append(@, Chunk(pdf_chunks[t][k], embeddings[t][k]))]
    /\ UNCHANGED <<notIngest, uuidDrawn, global_registry, registries, pc,
                   file, pdf_chunks, embeddings, registry>>

\* registry.add(entry), and the return of the UploadResponse
Add(t) ==
    /\ pc[t] = "zip"
    /\ ZipDone(entry[t].chunks, pdf_chunks[t], embeddings[t])
    /\ registries' = [registries EXCEPT ![registry[t]] =
                         RegistryAdd(@, entry[t].id, t)]
    /\ pc' = [pc EXCEPT ![t] = "done"]
    /\ UNCHANGED <<notIngest, uuidDrawn, global_registry, file, pdf_chunks,
                   embeddings, registry, entry>>

----------------------------------------------------------------------------
(* DocumentRegistry.add called directly: each thread holds a DocumentEntry *)
(* of its own and adds it to the one registry.                              *)

AddIds == {1, 2}

AddChunk ==
    [id |-> 7, text |-> <<SwimLine>>, page |-> 1,
     section |-> "Swim Bike Run Course Notes (420 Chars)", order |-> 0,
     embedding |-> <<1, 1>>]

AddEntries ==
    [id : AddIds, page_count : {1, 2}, chunks : {<<>>, <<AddChunk>>},
     schedule : {<<>>}]

AddInit ==
    /\ global_registry = 1
    /\ registries = <<EmptyStore>>
    /\ pc = [t \in Threads |-> "call_add"]
    /\ file = [t \in Threads |-> <<>>]
    /\ pdf_chunks = [t \in Threads |-> <<>>]
    /\ embeddings = [t \in Threads |-> <<>>]
    /\ registry = [t \in Threads |-> 1]
    /\ entry \in [Threads -> AddEntries]
    /\ uuidDrawn = 0

\* registry.add(entry)
CallAdd(t) ==
    /\ pc[t] = "call_add"
    /\ registries' = [registries EXCEPT ![registry[t]] =
                         RegistryAdd(@, entry[t].id, t)]
    /\ pc' = [pc EXCEPT ![t] = "done"]
    /\ UNCHANGED <<notIngest, uuidDrawn, global_registry, file, pdf_chunks,
                   embeddings, registry, entry>>

----------------------------------------------------------------------------
(* The retrieval steps of ask_question (main.py): similarity_search,       *)
(* _augment_with_schedule_chunks, _extract_transition_schedule_notes.      *)

QRack == "When do I rack my bike?"
QRedBag == "Where do I drop my red bag?"
QSwim == "What time is the swim start?"
QBoth == "Do T1 and T2 close early?"

Questions == {QRack, QRedBag, QSwim, QBoth}

\* _needs_transition: a keyword of the transition is in question.lower().
needs_transition(q, transition) ==
    IF transition = 1 THEN q \in {QRack, QBoth} ELSE q \in {QRedBag, QBoth}

\* The transition a line names ("transition 1", "transition 2"), 0 for none.
TransitionOf(l) ==
    CASE l \in {RackLine, FridayRackLine, SundayRackLine} -> 1
      [] l \in {BagLine, RunBagLine} -> 2
      [] OTHER -> 0

\* RACK_TIME_PATTERN.search(line): the line holds a clock time.
HasClock(l) ==
    l \in {TimeLine, ItemLine, BagLine, ItemUpperLine, FridayRackLine,
           SundayRackLine, EarlyLine, ItemClosesLine, DawnLine}

\* TIME_RANGE_PATTERN: the time range of a line, and where it starts in it.
TimeRangeOf(l) ==
    CASE l \in {TimeLine, FridayRackLine} -> "09:00 - 17:00"
      [] l = BagLine -> "14:00 - 18:00"
      [] l \in {SundayRackLine, EarlyLine} -> "04:30 - 06:00"
      [] l = DawnLine -> "06:00 - 07:00"
      [] OTHER -> None

TimeRangeStart(l) ==
    CASE l = BagLine -> 44
      [] l = FridayRackLine -> 50
      [] l = SundayRackLine -> 42
      [] OTHER -> 0

TimeRangeLength == 13

\* DAY_PATTERN: the day phrase of a line.
DayPhraseOf(l) ==
    CASE l = DayLine -> "SATURDAY 13TH SEPTEMBER"
      [] l \in {BagLine, FridayRackLine} -> "Friday 12th September"
      [] l \in {SundayLine, SundayRackLine} -> "Sunday 14th September"
      [] OTHER -> None

\* Where the day phrase starts in its line.
DayPhraseStart(l) ==
    CASE l = BagLine -> 22
      [] l = FridayRackLine -> 28
      [] l = SundayRackLine -> 20
      [] OTHER -> 0

\* _has_transition_schedule: the text names the transition and holds a clock
\* time; "transition N" is itself one of the keywords of the last test.
has_transition_schedule(text, transition) ==
    /\ \E i \in 1..Len(text) : TransitionOf(text[i]) = transition
    /\ \E i \in 1..Len(text) : HasClock(text[i])

\* Where line i starts in "\n".join(text).
RECURSIVE LineStart(_, _)
LineStart(text, i) ==
    IF i = 1 THEN 0
    ELSE LineStart(text, i - 1) + LineLength(text[i - 1]) + 1

\* The first line after line i that is not blank, 0 when there is none.
NextNonBlank(text, i) ==
    LET later == {j \in (i + 1)..Len(text) : ~IsBlank(text[j])}
    IN  IF later = {} THEN 0 ELSE CHOOSE j \in later : \A k \in later : j <= k

NoMatch == [num |-> 0, day |-> None, time |-> None]

\* The match of TRANSITION_LINE_PATTERN that starts in line i: the line
\* names a transition and either holds the time range itself (its day
\* phrase, when it has one, sits between the comma and the time range), or
\* is followed, after at most 80 characters without a digit, by a line that
\* starts with a time range.
PatternMatch(text, i) ==
    LET l == text[i]
        j == NextNonBlank(text, i)
    IN  IF TransitionOf(l) = 0 THEN NoMatch
        ELSE IF TimeRangeOf(l) # None
        THEN [num |-> TransitionOf(l), day |-> DayPhraseOf(l),
              time |-> TimeRangeOf(l)]
        ELSE IF /\ j # 0
                /\ TimeRangeOf(text[j]) # None
                /\ TimeRangeStart(text[j]) = 0
                /\ LineStart(text, j) - LineStart(text, i) - LineLength(l) <= 80
        THEN [num |-> TransitionOf(l), day |-> None,
              time |-> TimeRangeOf(text[j])]
        ELSE NoMatch

\* The first loop of _extract_transition_notes_from_text, from line i on.
RECURSIVE PatternNotes(_, _, _)
PatternNotes(text, transition, i) ==
    IF i > Len(text) THEN <<>>
    ELSE LET m == PatternMatch(text, i)
         IN  (IF m.num = transition
              THEN <<[day |-> m.day, time |-> m.time]>> ELSE <<>>)
                 \o PatternNotes(text, transition, i + 1)

\* nearest_day: the last day phrase that starts at or before line i's start.
NearestDay(text, i) ==
    LET days == {j \in 1..Len(text) :
                    /\ DayPhraseOf(text[j]) # None
                    /\ LineStart(text, j) + DayPhraseStart(text[j])
                           <= LineStart(text, i)}
    IN  IF days = {} THEN None
        ELSE DayPhraseOf(text[CHOOSE j \in days : \A k \in days : k <= j])

\* TIME_RANGE_PATTERN.findall(text[idx:idx + 800]) for the mention in line i,
\* from line j on.
RECURSIVE SegmentNotes(_, _, _, _)
SegmentNotes(text, i, j, day) ==
    IF j > Len(text) THEN <<>>
    ELSE (IF /\ TimeRangeOf(text[j]) # None
             /\ LineStart(text, j) - LineStart(text, i)
                    + TimeRangeStart(text[j]) + TimeRangeLength <= 800
          THEN <<[day |-> day, time |-> TimeRangeOf(text[j])]>> ELSE <<>>)
             \o SegmentNotes(text, i, j + 1, day)

\* The second loop of _extract_transition_notes_from_text, from line i on.
RECURSIVE MentionNotes(_, _, _)
MentionNotes(text, transition, i) ==
    IF i > Len(text) THEN <<>>
    ELSE (IF TransitionOf(text[i]) = transition
          THEN SegmentNotes(text, i, i, NearestDay(text, i)) ELSE <<>>)
             \o MentionNotes(text, transition, i + 1)

\* _extract_transition_notes_from_text
extract_transition_notes_from_text(text, transition) ==
    LET results == PatternNotes(text, transition, 1)
    IN  IF results # <<>> THEN results
        ELSE MentionNotes(text, transition, 1)

\* seen / collected of _build_transition_notes: the items in first-seen
\* order, each (day, time range) once.
RECURSIVE Collect(_, _)
Collect(items, collected) ==
    IF items = <<>> THEN collected
    ELSE Collect(Tail(items),
                 IF Head(items) \in Range(collected) THEN collected
                 ELSE Append(collected, Head(items)))

\* The items of the chunks that name the transition, in chunk order.
RECURSIVE TransitionItems(_, _)
TransitionItems(entry_chunks, transition) ==
    IF entry_chunks = <<>> THEN <<>>
    ELSE LET text == Head(entry_chunks).text
         IN  (IF \E i \in 1..Len(text) : TransitionOf(text[i]) = transition
              THEN extract_transition_notes_from_text(text, transition)
              ELSE <<>>)
                 \o TransitionItems(Tail(entry_chunks), transition)

\* "saturday" in day.lower(), "friday" in day.lower(), and "sunday" or
\* "race" in day.lower(), on the day phrases of the model.
IsSaturday(day) == day = "SATURDAY 13TH SEPTEMBER"
IsFriday(day) == day = "Friday 12th September"
IsRaceDay(day) == day = "Sunday 14th September"

\* A split at the dash: the text before it still holds the minutes.
HourTextToDash(time_range) ==
    CASE time_range = "09:00 - 17:00" -> "09:00 "
      [] time_range = "14:00 - 18:00" -> "14:00 "
      [] time_range = "04:30 - 06:00" -> "04:30 "
      [] time_range = "06:00 - 07:00" -> "06:00 "

\* time_range.split(":")[0]
HourText(time_range) ==
    CASE time_range = "09:00 - 17:00" -> "09"
      [] time_range = "14:00 - 18:00" -> "14"
      [] time_range = "04:30 - 06:00" -> "04"
      [] time_range = "06:00 - 07:00" -> "06"

\* Whether int(text) raises ValueError: the text is not a decimal numeral.
IntRaises(text) == text \notin {"09", "14", "04", "06"}

\* int(text)
IntOf(text) ==
    CASE text = "09" -> 9
      [] text = "14" -> 14
      [] text = "04" -> 4
      [] text = "06" -> 6
      [] OTHER -> 0

\* int(time_range.split(":")[0])
StartHour(time_range) == IntOf(HourText(time_range))

\* _is_race_morning_time
is_race_morning_time(time_range) == StartHour(time_range) <= 6

\* Whether _is_race_morning_time raises.
is_race_morning_time_raises(time_range) == IntRaises(HourText(time_range))

\* A note of the helper text, by the parts the f-string puts together.
Note(transition, kind, label, time_range, suffix) ==
    [transition |-> transition, kind |-> kind, label |-> label,
     time |-> time_range, suffix |-> suffix]

\* day_label or default
LabelOr(day, default) == IF day = None THEN default ELSE day

\* A selection that looks for Friday first and for Saturday only then.
select_transition1_notes_friday_first(entries) ==
    LET saturday == SelectSeq(entries, LAMBDA e : IsSaturday(e.day))
        friday == SelectSeq(entries, LAMBDA e : IsFriday(e.day))
        pre_candidates == IF friday # <<>> THEN friday ELSE saturday
        race_days == SelectSeq(entries, LAMBDA e : IsRaceDay(e.day))
        race_candidates ==
            IF race_days # <<>> THEN race_days
            ELSE SelectSeq(entries, LAMBDA e : is_race_morning_time(e.time))
    IN  (IF pre_candidates = <<>> THEN <<>>
         ELSE <<Note(1, "check-in",
                     LabelOr(pre_candidates[1].day, "Pre-race day"),
                     pre_candidates[1].time, "")>>)
        \o (IF race_candidates = <<>> THEN <<>>
            ELSE <<Note(1, "race morning",
                        LabelOr(race_candidates[1].day, "Race morning"),
                        race_candidates[1].time, "(final checks only)")>>)

\* _select_transition1_notes
select_transition1_notes(entries) ==
    LET saturday == SelectSeq(entries, LAMBDA e : IsSaturday(e.day))
        friday == SelectSeq(entries, LAMBDA e : IsFriday(e.day))
        pre_candidates == IF saturday # <<>> THEN saturday ELSE friday
        race_days == SelectSeq(entries, LAMBDA e : IsRaceDay(e.day))
        race_candidates ==
            IF race_days # <<>> THEN race_days
            ELSE SelectSeq(entries, LAMBDA e : is_race_morning_time(e.time))
    IN  (IF pre_candidates = <<>> THEN <<>>
         ELSE <<Note(1, "check-in",
                     LabelOr(pre_candidates[1].day, "Pre-race day"),
                     pre_candidates[1].time, "")>>)
        \o (IF race_candidates = <<>> THEN <<>>
            ELSE <<Note(1, "race morning",
                        LabelOr(race_candidates[1].day, "Race morning"),
                        race_candidates[1].time, "(final checks only)")>>)

\* Whether _select_transition1_notes raises: the race-morning test runs on
\* every entry when no entry's day mentions Sunday or race.
select_transition1_notes_raises(entries) ==
    /\ \A k \in 1..Len(entries) : ~IsRaceDay(entries[k].day)
    /\ \E k \in 1..Len(entries) : is_race_morning_time_raises(entries[k].time)

\* A selection that puts the Saturday entry before the Friday entry.
select_transition2_notes_saturday_first(entries) ==
    LET friday == SelectSeq(entries, LAMBDA e : IsFriday(e.day))
        saturday == SelectSeq(entries, LAMBDA e : IsSaturday(e.day))
        notes == (IF saturday = <<>> THEN <<>>
                  ELSE <<Note(2, "red-bag check-in", saturday[1].day,
                              saturday[1].time, "")>>)
                 \o (IF friday = <<>> THEN <<>>
                     ELSE <<Note(2, "red-bag check-in", friday[1].day,
                                 friday[1].time, "")>>)
    IN  IF notes # <<>> THEN notes
        ELSE [k \in 1..Min(2, Len(entries)) |->
                 Note(2, "red-bag check-in",
                      LabelOr(entries[k].day, "Pre-race"), entries[k].time,
                      "")]

\* _select_transition2_notes
select_transition2_notes(entries) ==
    LET friday == SelectSeq(entries, LAMBDA e : IsFriday(e.day))
        saturday == SelectSeq(entries, LAMBDA e : IsSaturday(e.day))
        notes == (IF friday = <<>> THEN <<>>
                  ELSE <<Note(2, "red-bag check-in", friday[1].day,
                              friday[1].time, "")>>)
                 \o (IF saturday = <<>> THEN <<>>
                     ELSE <<Note(2, "red-bag check-in", saturday[1].day,
                                 saturday[1].time, "")>>)
    IN  IF notes # <<>> THEN notes
        ELSE [k \in 1..Min(2, Len(entries)) |->
                 Note(2, "red-bag check-in",
                      LabelOr(entries[k].day, "Pre-race"), entries[k].time,
                      "")]

\* _build_transition_notes
build_transition_notes(entry_chunks, transition) ==
    LET collected == Collect(TransitionItems(entry_chunks, transition), <<>>)
    IN  IF collected = <<>> THEN <<>>
        ELSE IF transition = 1 THEN select_transition1_notes(collected)
        ELSE select_transition2_notes(collected)

\* Whether _extract_transition_schedule_notes raises; nothing but the
\* race-morning test of Transition 1 can.
extract_transition_schedule_notes_raises(entry_chunks, q) ==
    /\ needs_transition(q, 1)
    /\ select_transition1_notes_raises(
           Collect(TransitionItems(entry_chunks, 1), <<>>))

\* _extract_transition_schedule_notes
extract_transition_schedule_notes(entry_chunks, q, selected) ==
    (IF needs_transition(q, 1) THEN build_transition_notes(entry_chunks, 1)
     ELSE <<>>)
    \o (IF needs_transition(q, 2) THEN build_transition_notes(entry_chunks, 2)
        ELSE <<>>)

\* The first chunk of entry.chunks that is not in `selected` and holds the
\* transition's schedule; 0 when the loop ends without a break.
FirstScheduleChunk(entry_chunks, selected, transition) ==
    LET ids == {selected[k].id : k \in 1..Len(selected)}
        cands == {i \in 1..Len(entry_chunks) :
                     /\ entry_chunks[i].id \notin ids
                     /\ has_transition_schedule(entry_chunks[i].text,
                                                transition)}
    IN  IF cands = {} THEN 0
        ELSE CHOOSE i \in cands : \A j \in cands : i <= j

\* A test that leaves out whether `selected` holds the schedule already.
InsertsWhenNeeded(entry_chunks, selected, q, transition) ==
    /\ needs_transition(q, transition)
    /\ FirstScheduleChunk(entry_chunks, selected, transition) # 0

\* Whether the transition's block of _augment_with_schedule_chunks inserts.
Inserts(entry_chunks, selected, q, transition) ==
    /\ needs_transition(q, transition)
    /\ \A k \in 1..Len(selected) :
          ~has_transition_schedule(selected[k].text, transition)
    /\ FirstScheduleChunk(entry_chunks, selected, transition) # 0

\* An augmentation that inserts into entry.chunks, not into `selected`.
AugmentEntryChunks(entry_chunks, selected, q) ==
    LET c1 == IF Inserts(entry_chunks, selected, q, 1)
              THEN <<entry_chunks[FirstScheduleChunk(entry_chunks, selected,
                                                     1)]>> \o entry_chunks
              ELSE entry_chunks
        c2 == IF Inserts(entry_chunks, selected, q, 2)
              THEN Append(c1, entry_chunks[FirstScheduleChunk(entry_chunks,
                                                              selected, 2)])
              ELSE c1
    IN  [chunks |-> c2, selected |-> selected]

\* _augment_with_schedule_chunks: entry.chunks and `selected` as the call
\* leaves them; selected.insert(0, chunk) for transition 1, then
\* selected.append(chunk) for transition 2.
augment_with_schedule_chunks(entry_chunks, selected, q) ==
    LET s1 == IF Inserts(entry_chunks, selected, q, 1)
              THEN <<entry_chunks[FirstScheduleChunk(entry_chunks, selected,
                                                     1)]>> \o selected
              ELSE selected
        s2 == IF Inserts(entry_chunks, s1, q, 2)
              THEN Append(s1, entry_chunks[FirstScheduleChunk(entry_chunks,
                                                              s1, 2)])
              ELSE s1
    IN  [chunks |-> entry_chunks, selected |-> s2]

\* A guide with the check-in times of both transitions.
PdfTransitions == << <<SwimLine, RackLine, TimeLine>>, <<BagLine, ItemLine>>,
                     <<DayLine, RackLine, ItemLine, TimeLine>> >>

QueryPdfs == {PdfGuide, PdfTransitions}

\* The DocumentEntry ingest_pdf builds and stores for a PDF, when it is the
\* first ingestion of the process.
StoredEntry(pdf) ==
    LET r == load_pdf_chunks(pdf, 0)
    IN  [DocumentEntry(Uuid4(Len(r.chunks)), r.page_count) EXCEPT
            !.chunks = Zip(r.chunks, embed_chunks(r.chunks, Len(r.chunks)))]

QueryIdle ==
    /\ question = [t \in Threads |-> None]
    /\ required = [t \in Threads |-> 0]
    /\ query_embedding = [t \in Threads |-> <<0, 0>>]
    /\ top_chunks = [t \in Threads |-> <<>>]
    /\ helper_notes = [t \in Threads |-> <<>>]

\* Thread 1 has ingested one guide; both threads now enter ask_question.
QueryInit ==
    /\ file \in {[t \in Threads |-> IF t = 1 THEN pdf ELSE <<>>] :
                    pdf \in QueryPdfs}
    /\ pdf_chunks = [t \in Threads |->
                        IF t = 1 THEN load_pdf_chunks(file[1], 0).chunks
                        ELSE <<>>]
    /\ embeddings = [t \in Threads |->
                        embed_chunks(pdf_chunks[t], Len(pdf_chunks[t]))]
    /\ entry = [t \in Threads |->
                   IF t = 1 THEN StoredEntry(file[1]) ELSE NoEntry]
    /\ uuidDrawn = Len(pdf_chunks[1]) + 1
    /\ registries = <<RegistryAdd(EmptyStore, entry[1].id, 1)>>
    /\ global_registry = 1
    /\ registry = [t \in Threads |-> 0]
    /\ pc = [t \in Threads |-> "ask"]
    /\ QueryIdle

\* registry = get_registry(); entry = registry.require(payload.document_id):
\* a KeyError ends the request with a 404.
Require(t) ==
    /\ pc[t] = "ask"
    /\ \E q \in Questions, document_id \in {entry[1].id, 0} :
          LET found == RegistryGet(registries[global_registry], document_id)
          IN  /\ question' = [question EXCEPT ![t] = q]
              /\ required' = [required EXCEPT ![t] = found]
              /\ pc' = [pc EXCEPT ![t] =
                           IF found = 0 THEN "not_found" ELSE "embed_query"]
    /\ registry' = [registry EXCEPT ![t] = global_registry]
    /\ UNCHANGED <<notQuery, uuidDrawn, global_registry, registries, file,
                   pdf_chunks, embeddings, entry, query_embedding, top_chunks,
                   helper_notes>>

\* query_embedding = embed_query(combined_query): the collaborator raises
\* or answers with a vector.
EmbedQuery(t) ==
    /\ pc[t] = "embed_query"
    /\ \/ /\ pc' = [pc EXCEPT ![t] = "failed"]
          /\ UNCHANGED query_embedding
       \/ /\ \E v \in Vectors :
                query_embedding' = [query_embedding EXCEPT ![t] = v]
          /\ pc' = [pc EXCEPT ![t] = "search"]
    /\ UNCHANGED <<notQuery, uuidDrawn, global_registry, registries, file,
                   pdf_chunks, embeddings, registry, entry, question,
                   required, top_chunks, helper_notes>>

\* top_chunks = entry.similarity_search(query_embedding, top_k=settings.top_k)
SearchChunks(t) ==
    /\ pc[t] = "search"
    /\ \E r \in {SimilaritySearch(entry[required[t]].chunks,
                                   query_embedding[t], sTopK, sTie)} :
          top_chunks' = [top_chunks EXCEPT ![t] =
                            [k \in 1..Len(r.selected) |->
                                entry[required[t]].chunks[r.selected[k]]]]
    /\ pc' = [pc EXCEPT ![t] = "augment"]
    /\ UNCHANGED <<notQuery, uuidDrawn, global_registry, registries, file,
                   pdf_chunks, embeddings, registry, entry, question,
                   required, query_embedding, helper_notes>>

\* top_chunks = _augment_with_schedule_chunks(entry, top_chunks, question)
Augment(t) ==
    /\ pc[t] = "augment"
    /\ LET r == augment_with_schedule_chunks(entry[required[t]].chunks,
                                             top_chunks[t], question[t])
       IN  /\ entry' = [entry EXCEPT ![required[t]].chunks = r.chunks]
           /\ top_chunks' = [top_chunks EXCEPT ![t] = r.selected]
    /\ pc' = [pc EXCEPT ![t] = "notes"]
    /\ UNCHANGED <<notQuery, uuidDrawn, global_registry, registries, file,
                   pdf_chunks, embeddings, registry, question, required,
                   query_embedding, helper_notes>>

\* helper_notes = _extract_transition_schedule_notes(entry, question,
\* top_chunks)
ExtractNotes(t) ==
    /\ pc[t] = "notes"
    /\ helper_notes' = [helper_notes EXCEPT ![t] =
                           extract_transition_schedule_notes(
                               entry[required[t]].chunks, question[t],
                               top_chunks[t])]
    /\ pc' = [pc EXCEPT ![t] = "answered"]
    /\ UNCHANGED <<notQuery, uuidDrawn, global_registry, registries, file,
                   pdf_chunks, embeddings, registry, entry, question,
                   required, query_embedding, top_chunks>>

----------------------------------------------------------------------------
(* _extract_transition_schedule_notes on its own                           *)

\* The texts of the chunks of the documents handed to the note extraction:
\* no transition named, a transition named without a time, a transition with
\* a time range on the next line (no day label; from 09:00 and from 04:30),
\* a transition line with its day and time range (Friday, Sunday, both), a
\* transition under a Saturday heading with the time range further down
\* (from 09:00 and from 04:30), a transition with a time range from 06:00 on
\* the next line, and Transition 2 texts: a line with its Friday and time
\* range, a paragraph with a time range on the next line (no day label; two
\* time ranges), a paragraph with three time ranges further down, and a
\* paragraph under a Saturday heading.
NoteTexts ==
    { <<SwimLine>>,
      <<RackLine>>,
      <<RackLine, TimeLine>>,
      <<RackLine, EarlyLine>>,
      <<FridayRackLine>>,
      <<SundayRackLine>>,
      <<FridayRackLine, SundayRackLine>>,
      <<DayLine, RackLine, ItemLine, TimeLine>>,
      <<DayLine, RackLine, ItemLine, EarlyLine>>,
      <<RackLine, DawnLine>>,
      <<BagLine>>,
      <<RunBagLine, TimeLine>>,
      <<RunBagLine, EarlyLine>>,
      <<RunBagLine, ItemLine, TimeLine, EarlyLine, DawnLine>>,
      <<DayLine, RunBagLine, ItemLine, TimeLine>> }

\* entry.chunks for a list of chunk texts; the extraction reads chunk.text.
NoteChunks(texts) ==
    [k \in 1..Len(texts) |->
        [id |-> k, text |-> texts[k], page |-> k, section |-> None,
         order |-> k - 1, embedding |-> <<0, 0>>]]

NotesIdle ==
    /\ nChunks = <<>>
    /\ nQuestion = None
    /\ nPc = "idle"
    /\ nNotes = <<>>

NotesInit ==
    /\ nChunks \in {NoteChunks(texts) : texts \in SeqsUpTo(NoteTexts, MaxNoteChunks)}
    /\ nQuestion \in Questions
    /\ nPc = "ready"
    /\ nNotes = <<>>

\* helper_notes = _extract_transition_schedule_notes(entry, question,
\* top_chunks)
ExtractTransitionNotes ==
    /\ nPc = "ready"
    /\ IF extract_transition_schedule_notes_raises(nChunks, nQuestion)
       THEN nPc' = "raised" /\ nNotes' = nNotes
       ELSE /\ nPc' = "done"
            /\ nNotes' = extract_transition_schedule_notes(nChunks, nQuestion,
                                                           <<>>)
    /\ UNCHANGED <<notNotes, nChunks, nQuestion>>

----------------------------------------------------------------------------
(* upload_pdf (main.py): thread 2 serves one upload request; thread 1 has  *)
(* ingested a guide before, or nothing has been ingested yet.              *)

UPLOAD_LIMIT == 5

\* file.filename as the handler sees it: None, "", blanks, a name with and
\* without the .pdf ending.
Filenames == {None, "", "   ", "guide.pdf", "guide.txt"}

ContentTypes == {"application/pdf", "text/plain"}

Requests ==
    [content_type : ContentTypes, filename : Filenames,
     oversize : BOOLEAN]

NoRequest == [content_type |-> None, filename |-> None, oversize |-> FALSE]

NoResponse == [status |-> 0, detail |-> None]

\* HTTPException(status_code=status, detail=detail)
HTTPException(status, detail) == [status |-> status, detail |-> detail]

\* A check that takes only None and "" for a missing filename.
filename_missing_unstripped(filename) == filename \in {None, ""}

\* not isinstance(filename, str) or not filename.strip()
filename_missing(filename) == filename \in {None, "", "   "}

\* filename.lower().endswith(".pdf")
filename_is_pdf(filename) == filename = "guide.pdf"

UploadIdle ==
    /\ uRequest = NoRequest
    /\ uRecords = 0
    /\ uPc = "idle"
    /\ uResponse = NoResponse

UploadInit ==
    /\ uRequest \in Requests
    /\ uRecords \in 0..UPLOAD_LIMIT
    /\ uPc = "limit"
    /\ uResponse = NoResponse
    /\ \E stored \in BOOLEAN :
          /\ file = [t \in Threads |-> IF t = 1 /\ stored THEN PdfGuide ELSE <<>>]
          /\ pdf_chunks = [t \in Threads |->
                              IF t = 1 /\ stored
                              THEN load_pdf_chunks(PdfGuide, 0).chunks ELSE <<>>]
          /\ embeddings = [t \in Threads |->
                              embed_chunks(pdf_chunks[t], Len(pdf_chunks[t]))]
          /\ entry = [t \in Threads |->
                         IF t = 1 /\ stored THEN StoredEntry(PdfGuide)
                         ELSE NoEntry]
          /\ uuidDrawn = IF stored THEN Len(pdf_chunks[1]) + 1 ELSE 0
          /\ registries = IF stored
                          THEN <<RegistryAdd(EmptyStore, entry[1].id, 1)>>
                          ELSE <<>>
          /\ global_registry = IF stored THEN 1 ELSE 0
          /\ registry = [t \in Threads |-> 0]
          /\ pc = [t \in Threads |-> IF t = 1 /\ stored THEN "done" ELSE "idle"]

\* The request ends with an HTTPException.
Reject(status, detail) ==
    /\ uResponse' = HTTPException(status, detail)
    /\ uPc' = "responded"

\* _require_rate_limit(upload_rate_limiter, request, ...)
RequireRateLimit ==
    /\ uPc = "limit"
    /\ IF uRecords >= UPLOAD_LIMIT
       THEN /\ Reject(429, "Too many uploads from this IP. Try again later.")
            /\ UNCHANGED uRecords
       ELSE /\ uRecords' = uRecords + 1
            /\ uPc' = "type"
            /\ UNCHANGED uResponse
    /\ UNCHANGED <<notUpload, uuidDrawn, ingestVars, uRequest>>

\* if file.content_type != "application/pdf": raise HTTPException(400)
CheckContentType ==
    /\ uPc = "type"
    /\ IF uRequest.content_type # "application/pdf"
       THEN Reject(400, "Only PDF uploads are supported.")
       ELSE uPc' = "size" /\ UNCHANGED uResponse
    /\ UNCHANGED <<notUpload, uuidDrawn, ingestVars, uRequest, uRecords>>

\* file_bytes = await file.read(); _ensure_pdf_size: the size test
EnsureSize ==
    /\ uPc = "size"
    /\ IF uRequest.oversize
       THEN Reject(400, "PDF exceeds 80 MB limit.")
       ELSE uPc' = "name" /\ UNCHANGED uResponse
    /\ UNCHANGED <<notUpload, uuidDrawn, ingestVars, uRequest, uRecords>>

\* _ensure_pdf_size: the filename tests
EnsureFilename ==
    /\ uPc = "name"
    /\ IF filename_missing(uRequest.filename)
       THEN Reject(400, "Filename is required.")
       ELSE IF ~filename_is_pdf(uRequest.filename)
       THEN Reject(400, "Filename must end with .pdf")
       ELSE uPc' = "ingest" /\ UNCHANGED uResponse
    /\ UNCHANGED <<notUpload, uuidDrawn, ingestVars, uRequest, uRecords>>

\* return ingest_pdf(file_bytes, file.filename): thread 2 enters ingest_pdf
StartIngest ==
    /\ uPc = "ingest"
    /\ pc[2] = "idle"
    /\ pc' = [pc EXCEPT ![2] = "start"]
    /\ uPc' = "ingesting"
    /\ UNCHANGED <<notUpload, uuidDrawn, global_registry, registries, file,
                   pdf_chunks, embeddings, registry, entry, uRequest,
                   uRecords, uResponse>>

\* ingest_pdf returned the UploadResponse, or raised: a ValueError becomes a
\* 400, any other error (of embed_chunks) leaves the handler.
Respond ==
    /\ uPc = "ingesting"
    /\ \/ /\ pc[2] = "done"
          /\ uResponse' = [status |-> 200, detail |-> None]
       \/ /\ pc[2] = "failed"
          /\ \E status \in {400, 500} :
                uResponse' = HTTPException(status, "ingest_pdf raised")
    /\ uPc' = "responded"
    /\ UNCHANGED <<notUpload, uuidDrawn, ingestVars, uRequest, uRecords>>

----------------------------------------------------------------------------
(* _augment_with_schedule_chunks on its own                                *)

\* The texts of the chunks of the documents handed to the augmentation: no
\* transition named, Transition 1 named without a time, the schedule of
\* Transition 1, of Transition 2, and of both in one chunk.
AugmentTexts ==
    { <<SwimLine>>,
      <<RackLine>>,
      <<RackLine, TimeLine>>,
      <<BagLine>>,
      <<FridayRackLine, BagLine>> }

\* The lists similarity_search can return for entry.chunks: chunks of the
\* entry, none twice, in any order.
RetrievedLists(entry_chunks) ==
    {selected \in SeqsUpTo(1..Len(entry_chunks), Len(entry_chunks)) :
        \A i, j \in 1..Len(selected) : selected[i] = selected[j] => i = j}

AugmentIdle ==
    /\ aChunks = <<>>
    /\ aSelected = <<>>
    /\ aQuestion = None
    /\ aPc = "idle"
    /\ aResult = <<>>

AugmentInit ==
    /\ aChunks \in {NoteChunks(texts) :
                       texts \in SeqsUpTo(AugmentTexts, MaxAugmentChunks)}
    /\ aSelected \in {[k \in 1..Len(selected) |-> aChunks[selected[k]]] :
                         selected \in RetrievedLists(aChunks)}
    /\ aQuestion \in Questions
    /\ aPc = "ready"
    /\ aResult = <<>>

\* top_chunks = _augment_with_schedule_chunks(entry, top_chunks, question)
AugmentSelected ==
    /\ aPc = "ready"
    /\ aResult' = augment_with_schedule_chunks(aChunks, aSelected,
                                               aQuestion).selected
    /\ aPc' = "done"
    /\ UNCHANGED <<notAugment, aChunks, aSelected, aQuestion>>

----------------------------------------------------------------------------
(* RateLimiter (main.py): one limiter, checked for two keys.  Times are    *)
(* whole seconds of time.monotonic().                                      *)

\* RateLimiter(limit, window_seconds) of the model
limit == 2
window == 3

LimiterKeys == {"10.0.0.1", "10.0.0.2"}

\* How far time.monotonic() can move between two calls of check.
Elapsed == 0..2

\* A limiter that also drops the call made exactly `window` seconds ago.
OutsideWindowOrAtStart(time, window_start) == time <= window_start

\* queue[0] < window_start
OutsideWindow(time, window_start) == time < window_start

\* while queue and queue[0] < window_start: queue.popleft()
RECURSIVE PopExpired(_, _)
PopExpired(queue, window_start) ==
    IF queue # <<>> /\ OutsideWindow(Head(queue), window_start)
    THEN PopExpired(Tail(queue), window_start)
    ELSE queue

LimiterIdle ==
    /\ lRecords = [key \in LimiterKeys |-> <<>>]
    /\ lNow = 0
    /\ lCalls = <<>>

\* RateLimiter.__init__: self._records = defaultdict(deque)
LimiterInit ==
    /\ lRecords = [key \in LimiterKeys |-> <<>>]
    /\ lNow \in Elapsed
    /\ lCalls = <<>>

\* RateLimiter.check(key), called `elapsed` seconds after the call before.
Check(key) ==
    /\ Len(lCalls) < MaxChecks
    /\ \E elapsed \in Elapsed :
          LET now == lNow + elapsed
              queue == PopExpired(lRecords[key], now - window)
              accepted == Len(queue) < limit
          IN  /\ lNow' = now
              /\ lRecords' = [lRecords EXCEPT ![key] =
                                 IF accepted THEN Append(queue, now)
                                 ELSE queue]
              /\ lCalls' = Append(lCalls, [key |-> key, time |-> now,
                                           accepted |-> accepted])
    /\ UNCHANGED notLimiter

----------------------------------------------------------------------------
(* Specifications                                                          *)

RestIdle == AugmentIdle /\ LimiterIdle

OthersIdle == ScheduleIdle /\ NotesIdle /\ UploadIdle /\ RestIdle

Init == IngestInit /\ SearchIdle /\ ChunkIdle /\ QueryIdle /\ OthersIdle

Next ==
    \E t \in Threads :
        \/ Load(t)
        \/ CheckGuide(t)
        \/ Embed(t)
        \/ GetRegistryTest(t)
        \/ GetRegistryCreate(t)
        \/ GetRegistryReturn(t)
        \/ NewEntry(t)
        \/ AppendChunk(t)
        \/ Add(t)

Spec == Init /\ [][Next]_vars

InitAdd == AddInit /\ SearchIdle /\ ChunkIdle /\ QueryIdle /\ OthersIdle

NextAdd == \E t \in Threads : CallAdd(t)

SpecAdd == InitAdd /\ [][NextAdd]_vars

InitSearch ==
    /\ SearchInit /\ ChunkIdle /\ uuidDrawn = 0 /\ IngestIdle /\ QueryIdle
    /\ OthersIdle

NextSearch == Search

SpecSearch == InitSearch /\ [][NextSearch]_vars

InitChunk ==
    ChunkInit /\ SearchIdle /\ IngestIdle /\ QueryIdle /\ OthersIdle

NextChunk == RunChunker

SpecChunk == InitChunk /\ [][NextChunk]_vars

InitQuery ==
    /\ QueryInit
    /\ sChunks = <<>>
    /\ sQuery = <<0, 0>>
    /\ sTopK \in 0..MaxTopK
    /\ sTie \in TiePolicies
    /\ sPc = "idle"
    /\ sResult = NoResult
    /\ ChunkIdle
    /\ OthersIdle

NextQuery ==
    \E t \in Threads :
        \/ Require(t)
        \/ EmbedQuery(t)
        \/ SearchChunks(t)
        \/ Augment(t)
        \/ ExtractNotes(t)

SpecQuery == InitQuery /\ [][NextQuery]_vars

InitSchedule ==
    /\ ScheduleInit /\ SearchIdle /\ ChunkIdle /\ IngestIdle /\ QueryIdle
    /\ NotesIdle /\ UploadIdle /\ RestIdle

NextSchedule == ExtractSchedule

SpecSchedule == InitSchedule /\ [][NextSchedule]_vars

InitNotes ==
    /\ NotesInit /\ SearchIdle /\ ChunkIdle /\ uuidDrawn = 0 /\ IngestIdle
    /\ QueryIdle /\ ScheduleIdle /\ UploadIdle /\ RestIdle

NextNotes == ExtractTransitionNotes

SpecNotes == InitNotes /\ [][NextNotes]_vars

InitUpload ==
    /\ UploadInit /\ SearchIdle /\ ChunkIdle /\ QueryIdle /\ ScheduleIdle
    /\ NotesIdle /\ RestIdle

NextUpload ==
    \/ RequireRateLimit
    \/ CheckContentType
    \/ EnsureSize
    \/ EnsureFilename
    \/ StartIngest
    \/ Respond
    \/ Load(2)
    \/ CheckGuide(2)
    \/ Embed(2)
    \/ GetRegistryTest(2)
    \/ GetRegistryCreate(2)
    \/ GetRegistryReturn(2)
    \/ NewEntry(2)
    \/ AppendChunk(2)
    \/ Add(2)

SpecUpload == InitUpload /\ [][NextUpload]_vars

InitAugment ==
    /\ AugmentInit /\ SearchIdle /\ ChunkIdle /\ uuidDrawn = 0 /\ IngestIdle
    /\ QueryIdle /\ ScheduleIdle /\ NotesIdle /\ UploadIdle /\ LimiterIdle

NextAugment == AugmentSelected

SpecAugment == InitAugment /\ [][NextAugment]_vars

InitLimiter ==
    /\ LimiterInit /\ SearchIdle /\ ChunkIdle /\ uuidDrawn = 0 /\ IngestIdle
    /\ QueryIdle /\ ScheduleIdle /\ NotesIdle /\ UploadIdle /\ AugmentIdle

NextLimiter == \E key \in LimiterKeys : Check(key)

SpecLimiter == InitLimiter /\ [][NextLimiter]_vars

----------------------------------------------------------------------------
(* Claims on similarity_search, checked under SpecSearch.                  *)

sSims == Similarities(sChunks, sQuery)

sAnchorSet == Range(sResult.anchors)

sSelectedSet == Range(sResult.selected)

\* The place of a chunk position in the returned list, 0 when it is absent.
SelPos(i) ==
    IF i \in sSelectedSet
    THEN CHOOSE p \in 1..Len(sResult.selected) : sResult.selected[p] = i
    ELSE 0

\* The place of a chunk position in anchor_indices, 0 when it is no anchor.
Rank(i) ==
    IF i \in sAnchorSet
    THEN CHOOSE p \in 1..Len(sResult.anchors) : sResult.anchors[p] = i
    ELSE 0

\* C1: the search returns at most 2 * top_k chunks and never more than the
\* document has, no chunk id occurs twice in the result, and every anchor's
\* similarity is at least the similarity of every chunk left out of the
\* result.
C1_SearchBoundedAndBest ==
    sPc = "done" =>
        /\ Len(sResult.selected) <= 2 * sTopK
        /\ Len(sResult.selected) <= Len(sChunks)
        /\ \A p, r \in 1..Len(sResult.selected) :
               p # r => sChunks[sResult.selected[p]].id
                            # sChunks[sResult.selected[r]].id
        /\ \A a \in sAnchorSet :
               \A c \in (1..Len(sChunks)) \ sSelectedSet :
                   ~SimLess(sSims[a], sSims[c])

\* C1's case: a search with top_k = 1 over three chunks that returns the
\* anchor and a neighbor and leaves a chunk with a smaller similarity out.
C1_Witness ==
    /\ sPc = "done"
    /\ sTopK = 1
    /\ Len(sChunks) = 3
    /\ Len(sResult.selected) = 2
    /\ \E c \in (1..3) \ sSelectedSet :
           SimLess(sSims[c], sSims[sResult.anchors[1]])

\* C2: chunks with equal similarity are ranked by ascending order index:
\* tied anchors are in ascending order index in anchor_indices, and a chunk
\* tied with an anchor but left out of the anchors has a larger order index.
C2_TiesByOrderIndex ==
    sPc = "done" =>
        /\ \A p, r \in 1..Len(sResult.anchors) :
               (p < r /\ SimEq(sSims[sResult.anchors[p]],
                               sSims[sResult.anchors[r]]))
                   => sChunks[sResult.anchors[p]].order
                          < sChunks[sResult.anchors[r]].order
        /\ \A a \in sAnchorSet :
               \A c \in (1..Len(sChunks)) \ sAnchorSet :
                   SimEq(sSims[a], sSims[c])
                       => sChunks[a].order < sChunks[c].order

\* C3 as stated: an anchor with a strictly larger similarity than another
\* anchor comes before it in the returned list.
C3_AnchorRankingPreserved ==
    sPc = "done" =>
        \A a, b \in sAnchorSet :
            SimLess(sSims[b], sSims[a]) => SelPos(a) < SelPos(b)

\* C3 amended: an anchor a ranked above an anchor b comes before b in the
\* returned list unless b was emitted as the same-page neighbor of an anchor
\* ranked above a; b then directly follows that anchor.
C3_AnchorRankingUpToNeighbors ==
    sPc = "done" =>
        \A a, b \in sAnchorSet :
            Rank(a) < Rank(b) =>
                \/ SelPos(a) < SelPos(b)
                \/ \E c \in sAnchorSet :
                      /\ Rank(c) < Rank(a)
                      /\ SelPos(b) = SelPos(c) + 1
                      /\ sChunks[b].page = sChunks[c].page

\* C3's case: three anchors on two pages, the lowest ranked one returned in
\* front of the second ranked one.
C3_Witness ==
    /\ sPc = "done"
    /\ Len(sResult.anchors) = 3
    /\ \E a, b \in sAnchorSet :
           /\ Rank(a) < Rank(b)
           /\ SelPos(b) < SelPos(a)
           /\ sChunks[a].page # sChunks[b].page

----------------------------------------------------------------------------
(* Claims on ingest_pdf and the registry, checked under Spec.              *)

\* The entry objects some registry can return from get, require or list.
VisibleEntries ==
    UNION {RegistryList(registries[r]) : r \in 1..Len(registries)}

C4_EntriesComplete ==
    /\ \A r \in 1..Len(registries) :
          \A id \in DOMAIN registries[r] :
              LET t == RegistryGet(registries[r], id)
              IN  /\ entry[t] # NoEntry
                  /\ entry[t].id = id
                  /\ entry[t].chunks = Zip(pdf_chunks[t], embeddings[t])
    /\ \A t \in Threads :
          pc[t] = "failed" =>
              /\ t \notin VisibleEntries
              /\ entry[t] = NoEntry

C4_FailureKeepsRegistry ==
    \A t \in Threads :
        (pc[t] # "failed" /\ pc'[t] = "failed") =>
            /\ registries' = registries
            /\ global_registry' = global_registry
            /\ entry' = entry

\* C4: every entry a registry can return is completely built (it holds the
\* whole result of the loop over zip(chunks, embeddings), each chunk with
\* its vector), and an ingestion that fails (no text, not a triathlon
\* guide, the embedding call raises) adds nothing: the failing step leaves
\* every registry and every entry as it was, and the failed ingestion has no
\* entry anywhere.
C4_NoPartialEntry == []C4_EntriesComplete /\ [][C4_FailureKeepsRegistry]_vars

\* C4's case: one ingestion failed in the embedding call, after another
\* one's three-chunk document became visible.
C4_Witness ==
    \E t, u \in Threads :
        /\ pc[t] = "failed"
        /\ looks_like_triathlon_guide(pdf_chunks[t])
        /\ pc[u] = "done"
        /\ u \in VisibleEntries
        /\ Len(entry[u].chunks) = 3

\* C6: once two concurrent ingestions have both completed, both documents
\* are retrievable from the registry get_registry returns, each as the entry
\* its ingestion built.
C6_BothRetrievable ==
    (\A t \in Threads : pc[t] = "done") =>
        \A t \in Threads :
            RegistryGet(registries[global_registry], entry[t].id) = t

\* C8: an entry that became visible carries the schedule extract_schedule
\* produces for its document: the text strategy's days when the layout
\* strategy gave none, else the layout strategy's days.
C8_ScheduleStored ==
    \A t \in VisibleEntries :
        \E pdfplumber \in PdfPlumberStates :
            entry[t].schedule
                = extract_schedule(file[t], pdf_chunks[t], pdfplumber)

\* C9: the order indices of a document's chunks are strictly increasing in
\* emission order across its pages (so they are unique), and the chunks of
\* the DocumentEntry keep the chunker's order, ids and order indices.
C9_OrderIndices ==
    \A t \in Threads :
        /\ \A j, k \in 1..Len(pdf_chunks[t]) :
              j < k => pdf_chunks[t][j].order < pdf_chunks[t][k].order
        /\ Len(entry[t].chunks) <= Len(pdf_chunks[t])
        /\ \A k \in 1..Len(entry[t].chunks) :
              /\ entry[t].chunks[k].order = pdf_chunks[t][k].order
              /\ entry[t].chunks[k].id = pdf_chunks[t][k].id
        /\ \A j, k \in 1..Len(entry[t].chunks) :
              j < k => entry[t].chunks[j].order < entry[t].chunks[k].order

\* C9's case: a stored document of three chunks from pages 1 and 3, page 2
\* having been skipped.
C9_Witness ==
    \E t \in VisibleEntries :
        /\ Len(entry[t].chunks) = 3
        /\ entry[t].chunks[2].page = 1
        /\ entry[t].chunks[3].page = 3
        /\ Len(file[t]) = 3

----------------------------------------------------------------------------
(* Claims on DocumentRegistry.add, checked under SpecAdd.                  *)

C5_AddReplaces ==
    \A t \in Threads :
        (pc[t] = "call_add" /\ pc'[t] = "done") =>
            LET old == registries[registry[t]]
                new == registries'[registry[t]]
                id == entry[t].id
            IN  /\ DOMAIN new = DOMAIN old \cup {id}
                /\ new[id] = t
                /\ \A x \in DOMAIN old \ {id} : new[x] = old[x]
                /\ entry' = entry

\* C5: add stores the entry under its id and replaces what was stored there
\* as a whole: after the call the registry holds, for that id, the entry
\* object just passed, no entry object has been changed, and the entries
\* under other ids are the ones stored before.
C5_LastWriteWins == [][C5_AddReplaces]_vars

\* C5's case: two different entries with the same id have both been added.
C5_Witness ==
    /\ \A t \in Threads : pc[t] = "done" /\ entry[t].id = 1
    /\ entry[1] # entry[2]
    /\ DOMAIN registries[1] = {1}

----------------------------------------------------------------------------
(* Claims on load_pdf_chunks, checked under SpecChunk.                     *)

\* C10 as stated: two runs on the same page text return the same PageChunk
\* sequence, equal in every field.
C10_RunsIdentical ==
    \A a, b \in 1..Len(cRuns) : cRuns[a].chunks = cRuns[b].chunks

\* C10 amended: two runs on the same page text return PageChunk sequences
\* of the same length that agree element by element in text, page, section
\* title and order index; the ids are fresh uuid4 values in every run.
C10_RunsEqualUpToId ==
    \A a, b \in 1..Len(cRuns) :
        /\ Len(cRuns[a].chunks) = Len(cRuns[b].chunks)
        /\ cRuns[a].page_count = cRuns[b].page_count
        /\ \A k \in 1..Len(cRuns[a].chunks) :
              LET x == cRuns[a].chunks[k]
                  y == cRuns[b].chunks[k]
              IN  /\ x.text = y.text
                  /\ x.page = y.page
                  /\ x.section = y.section
                  /\ x.order = y.order

\* C10's case: two runs that each returned several chunks, with different
\* ids.
C10_Witness ==
    /\ Len(cRuns) = 2
    /\ Len(cRuns[1].chunks) >= 3
    /\ cRuns[1].chunks[1].id # cRuns[2].chunks[1].id
    /\ cRuns[1].chunks[3].page > cRuns[1].chunks[1].page

----------------------------------------------------------------------------
(* Claims on the retrieval steps of ask_question, checked under SpecQuery. *)

C7_StoredStateKept ==
    /\ registries' = registries
    /\ global_registry' = global_registry
    /\ entry' = entry

C7_SameResult ==
    /\ entry[1].chunks = Zip(pdf_chunks[1], embeddings[1])
    /\ entry[1].schedule = <<>>
    /\ entry[2] = NoEntry
    /\ registries = <<RegistryAdd(EmptyStore, entry[1].id, 1)>>
    /\ \A t, u \in Threads :
          (/\ pc[t] = "answered"
           /\ pc[u] = "answered"
           /\ question[t] = question[u]
           /\ query_embedding[t] = query_embedding[u])
              => /\ top_chunks[t] = top_chunks[u]
                 /\ helper_notes[t] = helper_notes[u]

\* C7: no step of a query changes stored state: similarity_search, the
\* augmentation and the note extraction leave every registry, and every
\* entry's chunk list and schedule, as they were, so the stored entry stays
\* the one ingestion built, and two queries with the same question and
\* query embedding on the document end with the same chunks and notes,
\* however their steps interleave.
C7_QueryMutatesNothing == []C7_SameResult /\ [][C7_StoredStateKept]_vars

\* C7's case: two queries with the same question, on both transitions, and
\* the same embedding have both ended; the search returned chunks, the
\* augmentation put a schedule chunk in front of them, and the extraction
\* produced a note.
C7_Witness ==
    /\ \A t \in Threads : pc[t] = "answered"
    /\ question[1] = QBoth
    /\ question[2] = QBoth
    /\ query_embedding[1] = query_embedding[2]
    /\ helper_notes[1] # <<>>
    /\ LET r == SimilaritySearch(entry[1].chunks, query_embedding[1], sTopK,
                                 sTie)
       IN  /\ r.selected # <<>>
           /\ Len(r.selected) < Len(top_chunks[1])
           /\ \A k \in 1..Len(r.selected) :
                 entry[1].chunks[r.selected[k]].id # top_chunks[1][1].id

----------------------------------------------------------------------------
(* Claims on extract_schedule, checked under SpecSchedule.                 *)

\* The triple of an item with its letters lowered.
LoweredTriple(item) ==
    <<item.time, LowerWords(item.activity), LowerWords(item.location)>>

\* C11: no day of the extractor's output holds two items whose (time,
\* activity, location) triples are equal without regard to letter case,
\* whichever strategy produced the output and also after the days of several
\* pages were merged.
C11_NoDuplicateItems ==
    ePc = "done" =>
        \A d \in 1..Len(eSchedule) :
            \A j, k \in 1..Len(eSchedule[d].items) :
                j # k => LoweredTriple(eSchedule[d].items[j])
                             # LoweredTriple(eSchedule[d].items[k])

\* C12: no two days of the list extract_schedule returned have the same
\* title.
C12_UniqueTitles ==
    ePc = "done" =>
        \A j, k \in 1..Len(eSchedule) :
            j # k => eSchedule[j].title # eSchedule[k].title

\* The day headings the extractor meets, in document order: the schedule
\* pages in page order, each from top to bottom.
RECURSIVE HeadingsOf(_, _)
HeadingsOf(file_pages, pages) ==
    IF pages = <<>> THEN <<>>
    ELSE LET text == file_pages[Head(pages)]
             labels == [i \in 1..Len(text) |-> parse_day_label(text[i])]
         IN  SelectSeq(labels, LAMBDA x : x # None)
                 \o HeadingsOf(file_pages, Tail(pages))

eHeadings == HeadingsOf(eFile, SchedulePageNumbers(eChunks))

FirstSeen(title) ==
    MinOf({i \in 1..Len(eHeadings) : eHeadings[i] = title})

\* C13: the returned list holds only days with at least one item, and the
\* days are in the order in which their headings first occur in the
\* document.
C13_FirstSeenOrder ==
    ePc = "done" =>
        /\ \A d \in 1..Len(eSchedule) : eSchedule[d].items # <<>>
        /\ \A j, k \in 1..Len(eSchedule) :
               j < k => FirstSeen(eSchedule[j].title)
                            < FirstSeen(eSchedule[k].title)

\* A document where the heading of a day stands on two pages, read by the
\* layout strategy, which found the day.
C12_Witness ==
    /\ ePc = "done"
    /\ ePlumber = "ok"
    /\ Len(eFile) = 2
    /\ \A n \in 1..2 : \E i \in 1..Len(eFile[n]) : eFile[n][i] = DayLine
    /\ \E d \in 1..Len(eSchedule) :
           /\ eSchedule[d].title = "Saturday 13Th September"
           /\ Len(eSchedule[d].items) >= 2

\* The items the layout strategy makes of the segment of day row `index` of
\* a page, each with the tops of its words.
SegmentItems(text, index) ==
    LET lines == group_words_by_line(extract_words(text, 1))
        day_rows == detect_day_rows(lines, 1, <<>>)
        end_top == IF index + 1 <= Len(day_rows)
                   THEN day_rows[index + 1].top ELSE Infinity
    IN  CollectItems(build_day_entries(lines, day_rows[index].top, end_top),
                     1, {}, {}, <<>>)

DayRows(text) ==
    detect_day_rows(group_words_by_line(extract_words(text, 1)), 1, <<>>)

\* C14: on every page the layout strategy reads, the words an item of a day
\* segment is made of all sit strictly below the heading that opens the
\* segment and strictly above the next heading; so no word goes into two
\* segments and a word above the first heading goes into none.
C14_SegmentBoundaries ==
    (ePc = "done" /\ ePlumber = "ok") =>
        \A n \in Range(SchedulePageNumbers(eChunks)) :
            LET day_rows == DayRows(eFile[n])
            IN  \A index \in 1..Len(day_rows) :
                    LET items == SegmentItems(eFile[n], index)
                    IN  \A k \in 1..Len(items) :
                            \A top \in items[k].tops :
                                /\ top > day_rows[index].top
                                /\ index < Len(day_rows)
                                       => top < day_rows[index + 1].top

\* A page with two headings where the second heading is within the reach of
\* the item above it and a timed line stands above the first heading.
C14_Witness ==
    /\ ePc = "done"
    /\ ePlumber = "ok"
    /\ eFile = << <<HeadLine, DayLine, ItemLine, SundayLine, ItemLine>>,
                  <<HeadLine, ItemLine, DayLine, ItemLine>> >>
    /\ Len(eSchedule) = 2
    /\ Len(eSchedule[1].items) = 1

eLayoutDays == CollectPages(eFile, SchedulePageNumbers(eChunks), 1, <<>>)

\* C20: extract_schedule returns, without raising, the text strategy's result
\* when pdfplumber is missing, when the file does not open, and when the
\* layout strategy finds no day; it returns the layout strategy's result,
\* and nothing of the text strategy's, when the layout strategy finds a day;
\* and it returns the empty list when no chunk has a schedule-like section
\* title.
C20_SilentFallback ==
    ePc \in {"done", "raised"} =>
        /\ SchedulePageNumbers(eChunks) = <<>>
               => ePc = "done" /\ eSchedule = <<>>
        /\ (/\ SchedulePageNumbers(eChunks) # <<>>
            /\ \/ ePlumber \in {"missing", "open fails"}
               \/ ePlumber = "ok" /\ eLayoutDays = <<>>)
               => ePc = "done" /\ eSchedule = extract_from_text(eChunks)
        /\ (/\ SchedulePageNumbers(eChunks) # <<>>
            /\ ePlumber = "ok"
            /\ eLayoutDays # <<>>)
               => ePc = "done" /\ eSchedule = eLayoutDays

\* A file that does not open for layout parsing, whose pages would have given
\* the layout strategy other days than the text strategy finds.
C20_Witness ==
    /\ ePc = "done"
    /\ ePlumber = "open fails"
    /\ eSchedule # <<>>
    /\ eLayoutDays # <<>>
    /\ eSchedule # eLayoutDays

----------------------------------------------------------------------------
(* Claims on the transition notes, checked under SpecNotes.                *)

\* C15: the note extraction returns and does not raise, for every question
\* and every chunk list; it returns no note when the question needs no
\* transition, and when no (day, time range) pair is found for the
\* transitions it needs.
C15_NotesNeverRaise ==
    nPc \in {"done", "raised"} =>
        /\ nPc = "done"
        /\ \A k \in 1..Len(nNotes) :
               nNotes[k].transition \in {1, 2} /\ nNotes[k].time # None
        /\ (\A transition \in {1, 2} :
               \/ ~needs_transition(nQuestion, transition)
               \/ TransitionItems(nChunks, transition) = <<>>)
               => nNotes = <<>>

\* A Transition 1 question on a chunk whose only entry has no day label and
\* starts at 04:30: the race-morning test ran and gave the one note.
C15_Witness ==
    /\ nPc = "done"
    /\ nQuestion = QRack
    /\ nChunks = NoteChunks(<< <<RackLine, EarlyLine>> >>)
    /\ Len(nNotes) = 1
    /\ nNotes[1].label = "Race morning"

nT1Entries == Collect(TransitionItems(nChunks, 1), <<>>)

nCheckIns ==
    SelectSeq(nNotes, LAMBDA n : n.transition = 1 /\ n.kind = "check-in")

nRaceMornings ==
    SelectSeq(nNotes, LAMBDA n : n.transition = 1 /\ n.kind = "race morning")

\* The Transition 1 selection as the claim words it; with_fallback adds the
\* entries that start at hour 6 or earlier as the second choice for the
\* race-morning note.
Transition1Selection(with_fallback) ==
    LET e == nT1Entries
        saturday == {k \in 1..Len(e) : IsSaturday(e[k].day)}
        friday == {k \in 1..Len(e) : IsFriday(e[k].day)}
        race_day == {k \in 1..Len(e) : IsRaceDay(e[k].day)}
        early == {k \in 1..Len(e) : StartHour(e[k].time) <= 6}
        pre == IF saturday # {} THEN saturday ELSE friday
        race == IF race_day # {} \/ ~with_fallback THEN race_day ELSE early
    IN  /\ Len(nCheckIns) = (IF pre = {} THEN 0 ELSE 1)
        /\ pre # {} =>
               /\ nCheckIns[1].label = e[MinOf(pre)].day
               /\ nCheckIns[1].time = e[MinOf(pre)].time
        /\ Len(nRaceMornings) = (IF race = {} THEN 0 ELSE 1)
        /\ race # {} =>
               /\ nRaceMornings[1].label
                      = LabelOr(e[MinOf(race)].day, "Race morning")
               /\ nRaceMornings[1].time = e[MinOf(race)].time
        /\ \A k \in 1..Len(nRaceMornings) :
               nRaceMornings[k].suffix = "(final checks only)"
        /\ SelectSeq(nNotes, LAMBDA n : n.transition = 1)
               = nCheckIns \o nRaceMornings

\* The Friday and Sunday example of the claim.
Transition1Example ==
    (nQuestion = QRack
        /\ nChunks = NoteChunks(<< <<FridayRackLine, SundayRackLine>> >>))
        => nNotes = <<Note(1, "check-in", "Friday 12th September",
                           "09:00 - 17:00", ""),
                      Note(1, "race morning", "Sunday 14th September",
                           "04:30 - 06:00", "(final checks only)")>>

\* C16 as stated: for a Transition 1 question the check-in note comes from
\* the first Saturday entry, else the first Friday entry; the race-morning
\* note comes from the first entry whose day mentions Sunday or race, stands
\* after the check-in note and is marked final checks only; the Friday and
\* Sunday example gives exactly its two notes.
C16_RaceMorningFromRaceDay ==
    (nPc = "done" /\ needs_transition(nQuestion, 1)) =>
        Transition1Selection(FALSE) /\ Transition1Example

\* C16 with the second choice of the code: when no entry's day mentions
\* Sunday or race, the race-morning note comes from the first entry whose
\* time range starts at hour 6 or earlier.
C16_RaceMorningWithFallback ==
    (nPc = "done" /\ needs_transition(nQuestion, 1)) =>
        Transition1Selection(TRUE) /\ Transition1Example

\* A Friday entry, then a Sunday entry, then a Saturday entry: the check-in
\* note is Saturday's and the race-morning note Sunday's.
C16_Witness ==
    /\ nPc = "done"
    /\ nQuestion = QRack
    /\ nChunks = NoteChunks(<< <<FridayRackLine, SundayRackLine>>,
                               <<DayLine, RackLine, ItemLine, TimeLine>> >>)
    /\ Len(nNotes) = 2
    /\ nNotes[1].label = "SATURDAY 13TH SEPTEMBER"
    /\ nNotes[2].label = "Sunday 14th September"

----------------------------------------------------------------------------
(* Claims on upload_pdf, checked under SpecUpload.                         *)

\* The request has content type application/pdf, is within the size limit
\* and has no filename, an empty one or one of blanks.
uBlankFilename ==
    /\ uRequest.content_type = "application/pdf"
    /\ ~uRequest.oversize
    /\ uRequest.filename \in {None, "", "   "}

C17_Rejected ==
    uBlankFilename =>
        /\ pc[2] = "idle"
        /\ (uPc = "responded" /\ uResponse.status # 429)
               => uResponse = [status |-> 400,
                               detail |-> "Filename is required."]

C17_RegistryKept ==
    uBlankFilename =>
        UNCHANGED <<global_registry, registries, entry, pdf_chunks,
                    embeddings, registry>>

\* C17: an upload that passes the rate limit with content type
\* application/pdf and an allowed size, and whose filename is missing, empty
\* or blank, is answered 400 "Filename is required."; it never enters
\* ingest_pdf and no step of it changes the registry.
C17_FilenameRequired == []C17_Rejected /\ [][C17_RegistryKept]_vars

\* A request with a filename of blanks was answered, with a document of an
\* earlier upload in the registry.
C17_Witness ==
    /\ uPc = "responded"
    /\ uBlankFilename
    /\ uRequest.filename = "   "
    /\ uResponse = [status |-> 400, detail |-> "Filename is required."]
    /\ global_registry = 1
    /\ RegistryList(registries[1]) # {}

----------------------------------------------------------------------------
(* Claims on zero vectors and on pages without text.                       *)

\* C18: under SpecSearch, every chunk gets a score with a divisor that is
\* not zero, and the score is 0 when the chunk's or the query's embedding is
\* all zero; the search then still returns chunks (at least one when top_k
\* is at least 1), and an entry without chunks returns the empty list.
C18_ZeroNormIsFinite ==
    sPc = "done" =>
        /\ \A i \in 1..Len(sChunks) :
               LET s == Similarity(sChunks[i].embedding, sQuery)
               IN  /\ s.den > 0
                   /\ (NormSq(sChunks[i].embedding) = 0 \/ NormSq(sQuery) = 0)
                          => s.sgn = 0 /\ s.num = 0
        /\ (sChunks # <<>> /\ sTopK >= 1) => sResult.selected # <<>>
        /\ Len(sResult.anchors) = Min(sTopK, Len(sChunks))
        /\ sChunks = <<>> => sResult = NoResult

\* A search with an all-zero query over chunks of which one has an all-zero
\* embedding and one has not.
C18_Witness ==
    /\ sPc = "done"
    /\ sQuery = <<0, 0>>
    /\ sTopK >= 1
    /\ \E i, j \in 1..Len(sChunks) :
           /\ sChunks[i].embedding = <<0, 0>>
           /\ sChunks[j].embedding # <<0, 0>>
    /\ sResult.selected # <<>>

\* page.extract_text() gave nothing, or white space only.
PageIsBlank(text) == \A i \in 1..Len(text) : IsBlank(text[i])

\* C19: under SpecChunk, no chunk carries the number of a page without text,
\* every chunk carries the 1-based number of the page its text comes from,
\* and every page with text has a chunk; the call returns with the page
\* count of the PDF.
C19_BlankPagesSkipped ==
    \A n \in 1..Len(cRuns) :
        /\ cRuns[n].page_count = Len(cPages)
        /\ \A k \in 1..Len(cRuns[n].chunks) :
               LET chunk == cRuns[n].chunks[k]
               IN  /\ chunk.page \in 1..Len(cPages)
                   /\ ~PageIsBlank(cPages[chunk.page])
                   /\ Range(chunk.text) \subseteq Range(cPages[chunk.page])
        /\ \A page_index \in 1..Len(cPages) :
               ~PageIsBlank(cPages[page_index])
                   => \E k \in 1..Len(cRuns[n].chunks) :
                          cRuns[n].chunks[k].page = page_index

\* A PDF with an empty page, a page of white space and then a page with
\* text, chunked: the chunks are those of page 3.
C19_Witness ==
    /\ Len(cRuns) >= 1
    /\ cPages = << <<>>, <<BlankLine>>,
                   <<HeadLine, DayLine, ItemLine, RackLine>> >>
    /\ cRuns[1].chunks # <<>>
    /\ \A k \in 1..Len(cRuns[1].chunks) : cRuns[1].chunks[k].page = 3

----------------------------------------------------------------------------
(* Claims on the text strategy.                                            *)

\* The lines _extract_from_text walks, in chunk and line order.
eLines == ScheduleLines(eChunks)

\* The line is read as a day label.
IsDayLabelLine(i) ==
    /\ ~IsBlank(eLines[i])
    /\ ~should_skip_line(eLines[i])
    /\ parse_day_label(eLines[i]) # None

\* The line is read as a time and an activity.
IsTimeLine(i) ==
    /\ ~IsBlank(eLines[i])
    /\ ~should_skip_line(eLines[i])
    /\ parse_day_label(eLines[i]) = None
    /\ parse_time_and_activity(eLines[i]) # NoItem

\* The day label most recently seen before line i, None when there is none.
DayBefore(i) ==
    LET labels == {j \in 1..(i - 1) : IsDayLabelLine(j)}
    IN  IF labels = {} THEN None
        ELSE parse_day_label(eLines[MaxOf(labels)])

\* Line i gives the item, up to the case of its letters.
LineGives(i, item) ==
    LET parsed == parse_time_and_activity(eLines[i])
    IN  /\ parsed.time = item.time
        /\ LowerWords(parsed.activity) = LowerWords(item.activity)
        /\ LowerWords(parsed.location) = LowerWords(item.location)

\* The first line under the day that gives the item.
FirstLineOf(title, item) ==
    MinOf({i \in 1..Len(eLines) :
              IsTimeLine(i) /\ DayBefore(i) = title /\ LineGives(i, item)})

\* C21: under SpecSchedule without pdfplumber, every item of a day comes
\* from a time line whose most recent day label is that day, every time
\* line after a day label has its item under that day (so a time line
\* before any label gives none), a day occurs once, its items are in the
\* order of their first lines, and the page with the heading, "SATURDAY
\* 13TH SEPTEMBER" and the two registration lines gives one day with the
\* two items in that order.
C21_ItemsUnderCurrentDay ==
    (ePc = "done" /\ ePlumber = "missing") =>
        /\ \A d \in 1..Len(eSchedule) :
               /\ eSchedule[d].items # <<>>
               /\ \A k \in 1..Len(eSchedule[d].items) :
                      \E i \in 1..Len(eLines) :
                          /\ IsTimeLine(i)
                          /\ DayBefore(i) = eSchedule[d].title
                          /\ parse_time_and_activity(eLines[i])
                                 = eSchedule[d].items[k]
               /\ \A j, k \in 1..Len(eSchedule[d].items) :
                      j < k =>
                          FirstLineOf(eSchedule[d].title,
                                      eSchedule[d].items[j])
                              < FirstLineOf(eSchedule[d].title,
                                            eSchedule[d].items[k])
        /\ \A c, d \in 1..Len(eSchedule) :
               eSchedule[c].title = eSchedule[d].title => c = d
        /\ \A i \in 1..Len(eLines) :
               (IsTimeLine(i) /\ DayBefore(i) # None) =>
                   \E d \in 1..Len(eSchedule) :
                       /\ eSchedule[d].title = DayBefore(i)
                       /\ \E k \in 1..Len(eSchedule[d].items) :
                              LineGives(i, eSchedule[d].items[k])
        /\ eFile = << <<HeadLine, DayLine, ItemLine, ItemClosesLine>> >> =>
               eSchedule =
                   << [title |-> "Saturday 13Th September",
                       items |->
                           << [time |-> "09:00",
                               activity |-> <<"Registration", "Opens">>,
                               location |-> NoLocation],
                              [time |-> "17:00",
                               activity |-> <<"Registration", "Closes">>,
                               location |-> NoLocation] >>] >>

\* The text strategy has run on a page whose first time line comes before
\* any day label, followed by a page that has a time line and no day label
\* of its own: the first line is dropped and the last one is filed under the
\* day of the page before.
C21_Witness ==
    /\ ePc = "done"
    /\ ePlumber = "missing"
    /\ eFile = << <<HeadLine, ItemLine, DayLine, ItemLine>>,
                  <<HeadLine, ItemClosesLine>> >>
    /\ Len(eSchedule) = 1
    /\ Len(eSchedule[1].items) = 2
    /\ eSchedule[1].items[2].time = "17:00"

----------------------------------------------------------------------------
(* Claims on the neighbors in similarity_search.                           *)

\* The chunks of the page of the chunk at place r of the result that are
\* not among the first r chunks of the result.
UnemittedOnPage(r) ==
    {i \in 1..Len(sChunks) :
        /\ sChunks[i].page = sChunks[sResult.selected[r]].page
        /\ \A x \in 1..r : sResult.selected[x] # i}

\* A reading of the result as anchors, each followed by its neighbor when
\* it has one: slot[r] says which of the two the chunk at place r is.
IsExpansion(slot) ==
    LET sel == sResult.selected
        n == Len(sResult.selected)
    IN  /\ n > 0 => slot[1] = "anchor"
        /\ \A r \in 1..n :
               slot[r] = "neighbor" =>
                   /\ r > 1
                   /\ slot[r - 1] = "anchor"
                   /\ UnemittedOnPage(r - 1) # {}
                   /\ sel[r] = MinOf(UnemittedOnPage(r - 1))
        /\ \A r \in 1..n :
               slot[r] = "anchor" =>
                   /\ sel[r] \in sAnchorSet
                   /\ IF UnemittedOnPage(r) # {}
                      THEN r < n /\ slot[r + 1] = "neighbor"
                      ELSE r = n \/ slot[r + 1] = "anchor"
        /\ \A q, r \in 1..n :
               (slot[q] = "anchor" /\ slot[r] = "anchor" /\ q < r)
                   => Rank(sel[q]) < Rank(sel[r])
        /\ \A r \in 1..n :
               (slot[r] = "neighbor" /\ sel[r] \in sAnchorSet)
                   => Rank(sel[r - 1]) < Rank(sel[r])
        /\ \A a \in sAnchorSet : \E r \in 1..n : sel[r] = a

\* C22: under SpecSearch, the result reads as the anchors in ranked order,
\* each directly followed by the first chunk in document order of its page
\* that the result does not hold up to there, when there is one and by
\* nothing otherwise; an anchor that stands as the neighbor of an anchor
\* ranked above it is not emitted again and has no neighbor of its own, and
\* every chunk that is not emitted as an anchor is such a neighbor.
C22_NeighborExpansion ==
    sPc = "done" =>
        \E slot \in [1..Len(sResult.selected) -> {"anchor", "neighbor"}] :
            IsExpansion(slot)

\* Three chunks on one page, all three anchors: the first ranked anchor is
\* followed by the first other chunk of the page, which is itself an anchor
\* and is skipped when its turn comes; the last anchor has no neighbor left.
C22_Witness ==
    /\ sPc = "done"
    /\ Len(sChunks) = 3
    /\ \A i \in 1..3 : sChunks[i].page = 1
    /\ Len(sResult.anchors) = 3
    /\ sResult.anchors[1] = 3
    /\ sResult.selected = <<3, 1, 2>>

----------------------------------------------------------------------------
(* Claims on _augment_with_schedule_chunks, checked under SpecAugment.     *)

\* Some chunk of the list holds the schedule of the transition.
HoldsSchedule(chunk_list, transition) ==
    \E k \in 1..Len(chunk_list) :
        has_transition_schedule(chunk_list[k].text, transition)

\* The first chunk of the document, in document order, that holds the
\* schedule of the transition, as a list; the empty list when none does.
FirstQualifying(transition) ==
    LET cands == {i \in 1..Len(aChunks) :
                     has_transition_schedule(aChunks[i].text, transition)}
    IN  IF cands = {} THEN <<>> ELSE <<aChunks[MinOf(cands)]>>

\* What goes in front of the retrieved list.
FrontChunk ==
    IF needs_transition(aQuestion, 1) /\ ~HoldsSchedule(aSelected, 1)
    THEN FirstQualifying(1) ELSE <<>>

\* C23 as stated: the Transition 2 chunk is appended whenever the question
\* needs Transition 2 and no retrieved chunk holds its schedule.
C23_OnePerTransition ==
    aPc = "done" =>
        aResult = FrontChunk \o aSelected
                      \o (IF /\ needs_transition(aQuestion, 2)
                             /\ ~HoldsSchedule(aSelected, 2)
                          THEN FirstQualifying(2) ELSE <<>>)

\* C23 amended: the Transition 2 chunk is appended when the question needs
\* Transition 2 and no chunk of the list holds its schedule, the chunk put
\* in front for Transition 1 counted with the retrieved ones; the result is
\* the retrieved list, in its order, with at most one chunk in front and at
\* most one at the end.
C23_OnePerTransitionAfterFront ==
    aPc = "done" =>
        aResult = FrontChunk \o aSelected
                      \o (IF /\ needs_transition(aQuestion, 2)
                             /\ ~HoldsSchedule(FrontChunk \o aSelected, 2)
                          THEN FirstQualifying(2) ELSE <<>>)

\* A question on both transitions, a retrieved chunk without any schedule,
\* and a document whose first Transition 1 chunk holds the schedule of
\* Transition 2 as well: it goes in front and nothing is appended.
C23_Witness ==
    /\ aPc = "done"
    /\ aQuestion = QBoth
    /\ Len(aSelected) = 1
    /\ ~HoldsSchedule(aSelected, 1)
    /\ ~HoldsSchedule(aSelected, 2)
    /\ Len(aResult) = 2
    /\ aResult[2] = aSelected[1]
    /\ has_transition_schedule(aResult[1].text, 1)
    /\ has_transition_schedule(aResult[1].text, 2)

----------------------------------------------------------------------------
(* Further claims on _extract_transition_schedule_notes, checked under     *)
(* SpecNotes.                                                              *)

\* The collected Transition 1 entries whose time range starts at hour 6 or
\* earlier.
nEarlyEntries ==
    {k \in 1..Len(nT1Entries) : StartHour(nT1Entries[k].time) <= 6}

nNoRaceDay == \A k \in 1..Len(nT1Entries) : ~IsRaceDay(nT1Entries[k].day)

\* C24: for a Transition 1 question where no collected entry's day mentions
\* Sunday or race, the race-morning note is built from the entry with the
\* earliest start hour among the entries that start at hour 6 or earlier,
\* and there is no race-morning note when no entry starts that early.
C24_EarliestRaceMorning ==
    (nPc = "done" /\ needs_transition(nQuestion, 1) /\ nNoRaceDay) =>
        /\ Len(nRaceMornings) = (IF nEarlyEntries = {} THEN 0 ELSE 1)
        /\ \A k \in nEarlyEntries :
               StartHour(nRaceMornings[1].time)
                   <= StartHour(nT1Entries[k].time)

nT2Entries == Collect(TransitionItems(nChunks, 2), <<>>)

nT2Notes == SelectSeq(nNotes, LAMBDA n : n.transition = 2)

\* The entries the claim has the Transition 2 notes built from: the first
\* Friday entry and then the first Saturday entry, or, with neither, the
\* first two entries.
nT2Chosen ==
    LET e == nT2Entries
        friday == {k \in 1..Len(e) : IsFriday(e[k].day)}
        saturday == {k \in 1..Len(e) : IsSaturday(e[k].day)}
    IN  IF friday = {} /\ saturday = {}
        THEN SubSeq(e, 1, Min(2, Len(e)))
        ELSE (IF friday = {} THEN <<>> ELSE <<e[MinOf(friday)]>>)
                 \o (IF saturday = {} THEN <<>> ELSE <<e[MinOf(saturday)]>>)

C25_FirstTwo ==
    /\ nPc = "done"
    /\ nQuestion = QRedBag
    /\ nChunks = NoteChunks(
           << <<RunBagLine, ItemLine, TimeLine, EarlyLine, DawnLine>> >>)
    /\ Len(nT2Entries) = 3
    /\ Len(nNotes) = 2

\* C27: for a Transition 1 question the check-in note and the race-morning
\* note are never built from the same collected (day, time range) entry,
\* also when the race-morning note is chosen by its start hour.
C27_CheckInNotRaceMorning ==
    (nPc = "done" /\ needs_transition(nQuestion, 1)) =>
        \A j \in 1..Len(nCheckIns), k \in 1..Len(nRaceMornings) :
            ~ /\ nCheckIns[j].label = nRaceMornings[k].label
              /\ nCheckIns[j].time = nRaceMornings[k].time

----------------------------------------------------------------------------
(* Claims on RateLimiter.check, checked under SpecLimiter.                 *)

\* The accepted calls of a key among the first n calls whose time is in
\* from..to.
AcceptedIn(key, n, from, to) ==
    {j \in 1..n : /\ lCalls[j].key = key
                  /\ lCalls[j].accepted
                  /\ from <= lCalls[j].time
                  /\ lCalls[j].time <= to}

\* The times of the accepted calls of a key that are not older than
\* `window` seconds at the key's last call, in call order.
StillRecorded(key) ==
    LET mine == {j \in 1..Len(lCalls) : lCalls[j].key = key}
        last == IF mine = {} THEN 0
                ELSE lCalls[CHOOSE j \in mine : \A k \in mine : k <= j].time
        kept == SelectSeq(lCalls, LAMBDA c : /\ c.key = key
                                              /\ c.accepted
                                              /\ c.time >= last - window)
    IN  [k \in 1..Len(kept) |-> kept[k].time]

\* C26: RateLimiter is a sliding-window limiter per key.  No key has more
\* than `limit` accepted calls in a span of `window` seconds; a call is
\* rejected exactly when `limit` accepted calls of its key are at most
\* `window` seconds old, whatever the other keys did; and the record of a
\* key holds the accepted calls alone, so a rejected call leaves no trace.
C26_SlidingWindowPerKey ==
    /\ \A i \in 1..Len(lCalls) :
           /\ Cardinality(AcceptedIn(lCalls[i].key, Len(lCalls),
                                     lCalls[i].time,
                                     lCalls[i].time + window)) <= limit
           /\ ~lCalls[i].accepted
                  <=> Cardinality(AcceptedIn(lCalls[i].key, i - 1,
                                             lCalls[i].time - window,
                                             lCalls[i].time)) >= limit
    /\ \A key \in LimiterKeys : lRecords[key] = StillRecorded(key)

\* A key is rejected with its window full, another key is accepted while
\* that window is still full, and the first key is accepted again less than
\* `window` seconds after its rejected call.
C26_Witness ==
    \E i, j, k \in 1..Len(lCalls) :
        /\ i < j /\ j < k
        /\ lCalls[i].key = lCalls[k].key
        /\ lCalls[j].key # lCalls[i].key
        /\ ~lCalls[i].accepted
        /\ lCalls[j].accepted
        /\ Cardinality(AcceptedIn(lCalls[i].key, j - 1,
                                  lCalls[j].time - window,
                                  lCalls[j].time)) >= limit
        /\ lCalls[k].accepted
        /\ lCalls[k].time - lCalls[i].time < window

----------------------------------------------------------------------------
(* A further claim on ingest_pdf, checked under Spec.                      *)

\* C28: an entry installed by a successful ingestion holds one Chunk for
\* every PageChunk the chunker produced, in the same order, each with the
\* vector of its own text, whatever number of vectors the embedding
\* collaborator returned.
C28_OneChunkPerPageChunk ==
    \A t \in VisibleEntries :
        /\ Len(entry[t].chunks) = Len(pdf_chunks[t])
        /\ \A k \in 1..Len(entry[t].chunks) :
               entry[t].chunks[k]
                   = Chunk(pdf_chunks[t][k], Embedding(pdf_chunks[t][k].text))

============================================================================
